---- MODULE Spec2Model ----
(***************************************************************************)
(* A model of the chain execution engine of SSU: ThoughtChain (the        *)
(* per-chain state machine with its per-step retry loop) and ChainPool    *)
(* (the worker pool that drives queued chains), from src/src/chain.py,    *)
(* and of its shared memory store: Memory and MemoryFactory, from         *)
(* src/src/memory.py.                                                     *)
(***************************************************************************)
EXTENDS Integers, Sequences, FiniteSets, TLC

\* ------------------------------------------------------------------ bounds

\* Largest number of steps of a chain.
MaxSteps == 2
\* Number of client threads that call a chain's methods directly.
NumClients == 2
\* Largest number of chains handed to a pool.
MaxChains == 2
\* Largest max_workers a pool is constructed with.
MaxWorkers == 2

\* config.MAX_RETRIES (default of CASEVO_MAX_RETRIES).
MAX_RETRIES == 3

\* ------------------------------------------------------------------ values

\* ChainState.
INIT == "INIT"
READY == "READY"
RUNNING == "RUNNING"
FINISHED == "FINISHED"
ERROR == "ERROR"
ChainState == {INIT, READY, RUNNING, FINISHED, ERROR}

\* Python's None, as the empty tuple: every datum of the model is a tuple, so
\* that any two of them can be compared.
None == <<>>

\* The input data a caller hands to set_input: a 1-tuple around the payload.
Inputs == {<<"a">>, <<"b">>}

\* The texts prompt.send_prompt may return.
Responses == {"r1", "r2"}

\* BaseStep.pre_process: the identity.
pre_process(input_data) == input_data

\* BaseStep.after_process: {'input': input_data, 'last_response': response},
\* as the pair <<input, last_response>>.
after_process(input_data, response) == <<input_data, response>>

\* StepResult(step_id, input_data, output_data).
StepResult(step_id, input_data, output_data) ==
    [step_id |-> step_id, input_data |-> input_data, output_data |-> output_data]

\* The ways an attempt of a step can fail: the action raises (BaseStep.action
\* turns any failure of send_prompt into StepExecutionError), or after_process
\* raises (StepValidationError in the Choice, Score and Json steps).
Failures == {"act_fail", "post_fail"}

\* The ways one attempt of a step can end: with a response, or failing.
Outcomes == Responses \cup Failures

\* The exception an attempt that ended `outcome` raised.
ErrorOf(outcome) ==
    IF outcome = "act_fail" THEN "StepExecutionError" ELSE "StepValidationError"

\* ------------------------------------------------------------------ state

VARIABLES
    \* ThoughtChain, one entry per chain
    state,            \* self.state
    input_content,    \* self.input_content
    step_history,     \* self.step_history
    output_content,   \* self.output_content
    lock,             \* self._lock: the set of threads holding it (at most one)
    steps,            \* len(self.steps); the steps' ids are 1..steps[c]
    stepOutcomes,     \* per step, the ways an attempt of it can end
    \* the locals of the run_step call in progress on the chain
    current_input,    \* run_step's current_input
    stepIdx,          \* position of `step` in the for loop over self.steps
    attempt,          \* _execute_step_with_retry's attempt
    last_error,       \* _execute_step_with_retry's last_error
    inFlight,         \* step.action(...) has been called and has not returned
    \* what has been observed
    execLog,          \* the steps whose action this run invoked, in order
    ret,              \* how the last call on a chain that returned or raised ended
    \* ChainPool
    pool_state,       \* self.state
    max_workers,      \* self.max_workers
    chain_queue,      \* self.chain_queue: the chains waiting, oldest first
    unfinished,       \* chain_queue.unfinished_tasks, which join() waits on
    shutdown,         \* self._shutdown is set
    executor_down,    \* self._executor has been shut down
    \* the _worker calls, one per submit
    wpc,              \* where each _worker call stands
    wchain,           \* _worker's chain
    wres,             \* how _worker's run_step call ended
    \* the start_pool and cleanup calls in progress
    spc,              \* where start_pool stands
    submitted,        \* the _worker calls start_pool has submitted
    raising,          \* the exception start_pool is propagating, or "ok"
    cpc,              \* where cleanup stands
    \* what has been observed
    pool_ret,         \* how the last call on the pool that returned or raised ended
    enqueued,         \* the chains add_chains has put on the queue, in order
    runs,             \* per chain, the run_step calls the workers have made
    started,          \* the start_pool calls that passed the guard: 0, 1, or 2 for more
    \* MemoryFactory
    collection,       \* self.memory_collection: its entries, in order of insertion
    max_results,      \* self.max_results
    client_reset,     \* self.client.reset() has deleted the collection
    flock,            \* self._locks: per name, the threads holding the lock
    \* Memory, one entry per agent
    long_term_memory,     \* self.long_term_memory
    last_reflection_id,   \* self.last_reflection_id
    alock,                \* self._lock: the threads holding it
    \* the calls in progress on the memory, one entry per calling thread
    mpc,              \* where the thread's call stands
    mlocal,           \* the call's arguments and locals
    mres,             \* how the thread's last call ended, and what it returned
    reflected,        \* per agent, the ids its successful reflects fetched, in order
    \* MemoryItem construction
    item_args,        \* the arguments of MemoryItem(...)
    item_made,        \* the item constructed, or the error raised
    \* after_process of the Choice, Score and JSON steps
    step_response,    \* the response handed to after_process
    step_output,      \* what after_process returned, or the error raised
    step_class,       \* the class of the step after_process is called on
    \* ThreadSend
    task_list,        \* self.task_list: the tasks on the queue, oldest first
    unfinished_tasks, \* the queue's count of tasks put and not yet marked done
    threads_num,      \* self.threads_num
    thread_list,      \* len(self.thread_list): the worker threads started
    send_pc,          \* per worker thread, where it stands
    send_task,        \* per worker thread, the task it took (0: none)
    task_raises,      \* per task, whether calling it raises
    invoked,          \* per task, how often it has been called
    start_pc          \* where start_thread stands

chainVars == <<state, input_content, step_history, output_content, lock, steps,
               stepOutcomes, current_input, stepIdx, attempt, last_error,
               inFlight, execLog, ret>>

poolVars == <<pool_state, max_workers, chain_queue, unfinished, shutdown,
              executor_down, wpc, wchain, wres, spc, submitted, raising, cpc,
              pool_ret, enqueued, runs, started>>

memVars == <<collection, max_results, client_reset, flock, long_term_memory,
             last_reflection_id, alock, mpc, mlocal, mres, reflected>>

pureVars == <<item_args, item_made, step_response, step_output, step_class>>

sendVars == <<task_list, unfinished_tasks, threads_num, thread_list, send_pc,
              send_task, task_raises, invoked, start_pc>>

vars == <<chainVars, poolVars, memVars, pureVars, sendVars>>

chains == DOMAIN state

\* How a call ended: the method, the chain, the calling thread, the chain's
\* state when the call got the lock, "ok" or the exception raised, and the
\* value returned.
Result(op, c, t, pre, res, val) ==
    [op |-> op, chain |-> c, thread |-> t, pre |-> pre, res |-> res, val |-> val]

NoCall == Result("none", 0, 0, INIT, "none", None)

\* ------------------------------------------------------------------ ThoughtChain

\* ThoughtChain.__init__ for every chain of `cs`, with n[c] steps whose
\* attempts end as out[c] allows; the chains of `ready` have since been given
\* the input x by set_input.
ChainInit(cs, n, out, ready, x) ==
    /\ state = [c \in cs |-> IF c \in ready THEN READY ELSE INIT]
    /\ input_content = [c \in cs |-> IF c \in ready THEN x ELSE None]
    /\ step_history = [c \in cs |-> <<>>]
    /\ output_content = [c \in cs |-> None]
    /\ lock = [c \in cs |-> {}]
    /\ steps = n
    /\ stepOutcomes = out
    /\ current_input = [c \in cs |-> None]
    /\ stepIdx = [c \in cs |-> 0]
    /\ attempt = [c \in cs |-> 0]
    /\ last_error = [c \in cs |-> None]
    /\ inFlight = [c \in cs |-> FALSE]
    /\ execLog = [c \in cs |-> <<>>]
    /\ ret = NoCall

\* Thread t is inside run_step of some chain (it holds that chain's lock).
Busy(t) == \E c \in chains : lock[c] = {t}

\* `with self._lock` succeeds at once for thread t: the RLock is free and t
\* is not inside a run_step, or t holds it and calls from inside a step body.
CanAcquire(c, t) ==
    \/ lock[c] = {} /\ ~Busy(t)
    \/ lock[c] = {t} /\ inFlight[c]

\* A guard that forgets that ERROR is final.
SetInputAllowedOrError(s) == s \in {INIT, FINISHED, ERROR}

\* set_input's guard: the states in which an input is accepted.
SetInputAllowed(s) == s \in {INIT, FINISHED}

\* ThoughtChain.set_input(input_data) called by thread t.
set_input(c, t, x) ==
    /\ CanAcquire(c, t)
    /\ IF ~SetInputAllowed(state[c])
       THEN /\ ret' = Result("set_input", c, t, state[c], "ValidationError", None)
            /\ UNCHANGED <<state, input_content, step_history>>
       ELSE /\ input_content' = [input_content EXCEPT ![c] = x]
            /\ step_history' = [step_history EXCEPT ![c] = <<>>]
            /\ state' = [state EXCEPT ![c] = READY]
            /\ ret' = Result("set_input", c, t, state[c], "ok", None)
    /\ UNCHANGED <<output_content, lock, steps, stepOutcomes, current_input,
                   stepIdx, attempt, last_error, inFlight, execLog>>

\* A guard that lets a failed chain be read.
ReadAllowedOrError(s) == s \in {FINISHED, ERROR}

\* The getters' guard: the state in which a result may be read.
ReadAllowed(s) == s = FINISHED

\* ThoughtChain.get_output() called by thread t.
get_output(c, t) ==
    /\ CanAcquire(c, t)
    /\ ret' = IF ~ReadAllowed(state[c])
                 THEN Result("get_output", c, t, state[c], "ValidationError", None)
                 ELSE Result("get_output", c, t, state[c], "ok", output_content[c])
    /\ UNCHANGED <<state, input_content, step_history, output_content, lock,
                   steps, stepOutcomes, current_input, stepIdx, attempt,
                   last_error, inFlight, execLog>>

\* ThoughtChain.get_history() called by thread t.
get_history(c, t) ==
    /\ CanAcquire(c, t)
    /\ ret' = IF ~ReadAllowed(state[c])
                 THEN Result("get_history", c, t, state[c], "ValidationError", None)
                 ELSE Result("get_history", c, t, state[c], "ok", step_history[c])
    /\ UNCHANGED <<state, input_content, step_history, output_content, lock,
                   steps, stepOutcomes, current_input, stepIdx, attempt,
                   last_error, inFlight, execLog>>

\* A guard that lets a chain without input be run.
RunAllowedFromInit(s) == s \in {INIT, READY}

\* A guard that lets a failed chain be run again.
RunAllowedOrError(s) == s \in {READY, ERROR}

\* run_step's guard: the state in which a run may start.
RunAllowed(s) == s = READY

\* A run of no steps that counts as finished.
AfterEmptyRunFinished == FINISHED

\* run_step with no steps: `self.step_history[-1]` raises IndexError on the
\* empty history, and the handler sets the state the run ends in.
AfterEmptyRun == ERROR

\* ThoughtChain.run_step() called by thread t, up to the first step's body:
\* the guard, state = RUNNING, current_input = input_content. The lock stays
\* held. With no steps the loop body never runs and step_history[-1] raises
\* IndexError, which the handler turns into ERROR before re-raising.
run_step(c, t) ==
    /\ CanAcquire(c, t)
    /\ IF ~RunAllowed(state[c])
       THEN /\ ret' = Result("run_step", c, t, state[c], "ValidationError", None)
            /\ UNCHANGED <<state, lock, current_input, stepIdx, attempt,
                           last_error, execLog>>
       ELSE /\ current_input' = [current_input EXCEPT ![c] = input_content[c]]
            /\ attempt' = [attempt EXCEPT ![c] = 0]
            /\ last_error' = [last_error EXCEPT ![c] = None]
            /\ execLog' = [execLog EXCEPT ![c] = <<>>]
            /\ IF steps[c] = 0
               THEN /\ state' = [state EXCEPT ![c] = AfterEmptyRun]
                    /\ ret' = Result("run_step", c, t, state[c], "IndexError", None)
                    /\ UNCHANGED <<lock, stepIdx>>
               ELSE /\ state' = [state EXCEPT ![c] = RUNNING]
                    /\ lock' = [lock EXCEPT ![c] = {t}]
                    /\ stepIdx' = [stepIdx EXCEPT ![c] = 1]
                    /\ UNCHANGED ret
    /\ UNCHANGED <<input_content, step_history, output_content, steps,
                   stepOutcomes, inFlight>>

\* One attempt begins: pre_process, then step.action is called (the prompt is
\* sent to the completion service).
StepCall(c, t) ==
    /\ lock[c] = {t}
    /\ state[c] = RUNNING
    /\ ~inFlight[c]
    /\ inFlight' = [inFlight EXCEPT ![c] = TRUE]
    /\ execLog' = [execLog EXCEPT ![c] = Append(@, stepIdx[c])]
    /\ UNCHANGED <<state, input_content, step_history, output_content, lock,
                   steps, stepOutcomes, current_input, stepIdx, attempt,
                   last_error, ret>>

\* Every step is handed the chain's input.
NextInputIsChainInput(c, result) == input_content[c]

\* The input run_step hands to the step after one that returned `result`.
NextInput(c, result) == result.output_data

\* The chain's output once every step has succeeded.
ChainOutput(history) == history[Len(history)].output_data

\* The attempt in flight succeeds with response r: the StepResult is appended
\* to the history and its output becomes the next step's input; after the
\* last step the output is set, the chain is FINISHED and run_step returns.
StepSucceeds(c, t, r) ==
    LET processed_input == pre_process(current_input[c])
        result == StepResult(stepIdx[c], processed_input,
                             after_process(processed_input, r))
        history == Append(step_history[c], result)
    IN  /\ step_history' = [step_history EXCEPT ![c] = history]
        /\ current_input' = [current_input EXCEPT ![c] = NextInput(c, result)]
        /\ attempt' = [attempt EXCEPT ![c] = 0]
        /\ last_error' = [last_error EXCEPT ![c] = None]
        /\ IF stepIdx[c] = steps[c]
           THEN /\ output_content' = [output_content EXCEPT ![c] = ChainOutput(history)]
                /\ state' = [state EXCEPT ![c] = FINISHED]
                /\ lock' = [lock EXCEPT ![c] = {}]
                /\ ret' = Result("run_step", c, t, READY, "ok", None)
                /\ UNCHANGED stepIdx
           ELSE /\ stepIdx' = [stepIdx EXCEPT ![c] = @ + 1]
                /\ UNCHANGED <<output_content, state, lock, ret>>

\* A range one attempt too long.
InRangeInclusive(a) == a <= MAX_RETRIES

\* `for attempt in range(config.MAX_RETRIES)`: a is one of the attempts made.
InRange(a) == a < MAX_RETRIES

\* A handler that re-raises without setting ERROR.
StepFailsStaysRunning(c, t, e) ==
    /\ last_error' = [last_error EXCEPT ![c] = <<e>>]
    /\ IF InRange(attempt[c] + 1)
       THEN /\ attempt' = [attempt EXCEPT ![c] = @ + 1]
            /\ UNCHANGED <<lock, ret>>
       ELSE /\ lock' = [lock EXCEPT ![c] = {}]
            /\ ret' = Result("run_step", c, t, READY, "StepExecutionError", <<e>>)
            /\ UNCHANGED attempt
    /\ UNCHANGED <<state, step_history, output_content, current_input, stepIdx>>

\* A retry loop that records the failed attempt in the history.
StepFailsRecorded(c, t, e) ==
    /\ last_error' = [last_error EXCEPT ![c] = <<e>>]
    /\ step_history' = [step_history EXCEPT ![c] =
                          Append(@, StepResult(stepIdx[c], current_input[c], None))]
    /\ IF InRange(attempt[c] + 1)
       THEN /\ attempt' = [attempt EXCEPT ![c] = @ + 1]
            /\ UNCHANGED <<state, lock, ret>>
       ELSE /\ state' = [state EXCEPT ![c] = ERROR]
            /\ lock' = [lock EXCEPT ![c] = {}]
            /\ ret' = Result("run_step", c, t, READY, "StepExecutionError", <<e>>)
            /\ UNCHANGED attempt
    /\ UNCHANGED <<output_content, current_input, stepIdx>>

\* The attempt in flight fails with error e: another attempt is made, or the
\* retries are exhausted, _execute_step_with_retry raises StepExecutionError
\* around the last error, and run_step sets ERROR and re-raises it.
StepFails(c, t, e) ==
    /\ last_error' = [last_error EXCEPT ![c] = <<e>>]
    /\ IF InRange(attempt[c] + 1)
       THEN /\ attempt' = [attempt EXCEPT ![c] = @ + 1]
            /\ UNCHANGED <<state, lock, ret>>
       ELSE /\ state' = [state EXCEPT ![c] = ERROR]
            /\ lock' = [lock EXCEPT ![c] = {}]
            /\ ret' = Result("run_step", c, t, READY, "StepExecutionError", <<e>>)
            /\ UNCHANGED attempt
    /\ UNCHANGED <<step_history, output_content, current_input, stepIdx>>

\* step.action returns or raises, and after_process runs: the attempt ends in
\* one of the ways the step allows.
StepReturn(c, t) ==
    /\ lock[c] = {t}
    /\ inFlight[c]
    /\ inFlight' = [inFlight EXCEPT ![c] = FALSE]
    /\ \E outcome \in stepOutcomes[c][stepIdx[c]] :
          IF outcome \in Responses
          THEN StepSucceeds(c, t, outcome)
          ELSE StepFails(c, t, ErrorOf(outcome))
    /\ UNCHANGED <<input_content, steps, stepOutcomes, execLog>>

\* ------------------------------------------------------------------ one chain, its callers

\* No pool: the pool's variables at rest.
NoPool ==
    /\ pool_state = INIT
    /\ max_workers = 0
    /\ chain_queue = <<>>
    /\ unfinished = 0
    /\ shutdown = FALSE
    /\ executor_down = FALSE
    /\ wpc = <<>>
    /\ wchain = <<>>
    /\ wres = <<>>
    /\ spc = "idle"
    /\ submitted = 0
    /\ raising = "ok"
    /\ cpc = "idle"
    /\ pool_ret = [op |-> "none", res |-> "none"]
    /\ enqueued = <<>>
    /\ runs = <<>>
    /\ started = 0

\* No memory: the memory's variables at rest.
NoMemory ==
    /\ collection = <<>>
    /\ max_results = 0
    /\ client_reset = FALSE
    /\ reflected = <<>>
    /\ flock = <<>>
    /\ long_term_memory = <<>>
    /\ last_reflection_id = <<>>
    /\ alock = <<>>
    /\ mpc = <<>>
    /\ mlocal = <<>>
    /\ mres = <<>>

\* No ThreadSend: its variables at rest.
NoSend ==
    /\ task_list = <<>>
    /\ unfinished_tasks = 0
    /\ threads_num = 0
    /\ thread_list = 0
    /\ send_pc = <<>>
    /\ send_task = <<>>
    /\ task_raises = <<>>
    /\ invoked = <<>>
    /\ start_pc = "idle"

\* No item under construction and no response being parsed.
NoPure ==
    /\ item_args = <<>>
    /\ item_made = <<>>
    /\ step_response = <<>>
    /\ step_output = <<>>
    /\ step_class = "none"

\* A chain of 0..MaxSteps arbitrary steps and NumClients threads.
InitChain ==
    /\ \E n \in 0..MaxSteps :
          ChainInit({1}, [c \in {1} |-> n],
                    [c \in {1} |-> [s \in 1..n |-> Outcomes]], {}, None)
    /\ NoPool
    /\ NoMemory
    /\ NoPure
    /\ NoSend

ClientSetInput ==
    /\ \E c \in chains, t \in 1..NumClients, x \in Inputs : set_input(c, t, x)
    /\ UNCHANGED <<poolVars, memVars, pureVars, sendVars>>

ClientRunStep ==
    /\ \E c \in chains, t \in 1..NumClients : run_step(c, t)
    /\ UNCHANGED <<poolVars, memVars, pureVars, sendVars>>

ClientStepCall ==
    /\ \E c \in chains, t \in 1..NumClients : StepCall(c, t)
    /\ UNCHANGED <<poolVars, memVars, pureVars, sendVars>>

ClientStepReturn ==
    /\ \E c \in chains, t \in 1..NumClients : StepReturn(c, t)
    /\ UNCHANGED <<poolVars, memVars, pureVars, sendVars>>

ClientGetOutput ==
    /\ \E c \in chains, t \in 1..NumClients : get_output(c, t)
    /\ UNCHANGED <<poolVars, memVars, pureVars, sendVars>>

ClientGetHistory ==
    /\ \E c \in chains, t \in 1..NumClients : get_history(c, t)
    /\ UNCHANGED <<poolVars, memVars, pureVars, sendVars>>

NextChain ==
    \/ ClientSetInput
    \/ ClientRunStep
    \/ ClientStepCall
    \/ ClientStepReturn
    \/ ClientGetOutput
    \/ ClientGetHistory

SpecChain == InitChain /\ [][NextChain]_vars

\* The steps under way make progress: a thread inside run_step goes on, and
\* a call to the completion service returns or raises.
RunProgress == ClientStepCall \/ ClientStepReturn

FairSpecChain == SpecChain /\ WF_vars(RunProgress)

\* ------------------------------------------------------------------ ChainPool

workers == DOMAIN wpc

PoolResult(op, res) == [op |-> op, res |-> res]

\* A submit loop that goes round once too often.
WorkerCountPlusOne(mw) == mw + 1

\* `for _ in range(self.max_workers)`: the number of _worker calls start_pool
\* submits. The executor has max_workers threads, so that each call has a
\* thread of its own.
WorkerCount(mw) == mw

\* ChainPool.__init__(max_workers=mw), and no worker yet for the chains cs.
PoolInit(mw, cs) ==
    /\ pool_state = INIT
    /\ max_workers = mw
    /\ chain_queue = <<>>
    /\ unfinished = 0
    /\ shutdown = FALSE
    /\ executor_down = FALSE
    /\ wpc = [w \in 1..WorkerCount(mw) |-> "unsubmitted"]
    /\ wchain = [w \in 1..WorkerCount(mw) |-> 0]
    /\ wres = [w \in 1..WorkerCount(mw) |-> "none"]
    /\ spc = "idle"
    /\ submitted = 0
    /\ raising = "ok"
    /\ cpc = "idle"
    /\ pool_ret = PoolResult("none", "none")
    /\ enqueued = <<>>
    /\ runs = [c \in cs |-> 0]
    /\ started = 0

\* A guard that accepts chains until the pool is started, and after.
AddAllowedWhenReady(s) == s \in {INIT, READY}

\* add_chains' guard: the pool state in which chains are accepted.
AddAllowed(s) == s = INIT

\* ChainPool.add_chains(chains): every chain is put on the queue (put counts
\* it as an unfinished task) and the pool is READY.
add_chains(cs) ==
    /\ IF ~AddAllowed(pool_state)
       THEN /\ pool_ret' = PoolResult("add_chains", "ValidationError")
            /\ UNCHANGED <<pool_state, chain_queue, unfinished, enqueued>>
       ELSE /\ chain_queue' = chain_queue \o cs
            /\ unfinished' = unfinished + Len(cs)
            /\ enqueued' = enqueued \o cs
            /\ pool_state' = READY
            /\ pool_ret' = PoolResult("add_chains", "ok")
    /\ UNCHANGED <<max_workers, shutdown, executor_down, wpc, wchain, wres, spc,
                   submitted, raising, cpc, runs, started>>
    /\ UNCHANGED <<chainVars, memVars, pureVars, sendVars>>

\* A guard that lets a pool without chains be started.
StartAllowedBeforeAdd(s) == s \in {INIT, READY}

\* start_pool's guard: the pool state in which the pool may be started.
StartAllowed(s) == s = READY

\* ChainPool.start_pool(), up to the first submit.
start_pool ==
    /\ spc = "idle"
    /\ IF ~StartAllowed(pool_state)
       THEN /\ pool_ret' = PoolResult("start_pool", "ValidationError")
            /\ UNCHANGED <<spc, submitted, raising, started>>
       ELSE /\ spc' = "submit"
            /\ submitted' = 0
            /\ raising' = "ok"
            /\ started' = IF started = 0 THEN 1 ELSE 2
            /\ UNCHANGED pool_ret
    /\ UNCHANGED <<pool_state, max_workers, chain_queue, unfinished, shutdown,
                   executor_down, wpc, wchain, wres, cpc, enqueued, runs>>
    /\ UNCHANGED <<chainVars, memVars, pureVars, sendVars>>

\* A submit loop without the handler: RuntimeError leaves start_pool as it
\* is, and the shutdown flag stays as it was.
SubmitUnhandled ==
    /\ spc = "submit"
    /\ IF executor_down
       THEN /\ raising' = "RuntimeError"
            /\ spc' = "wait"
            /\ UNCHANGED <<submitted, wpc>>
       ELSE /\ submitted' = submitted + 1
            /\ wpc' = [wpc EXCEPT ![submitted + 1] = "loop"]
            /\ spc' = IF submitted + 1 = WorkerCount(max_workers)
                      THEN "join" ELSE "submit"
            /\ UNCHANGED raising
    /\ UNCHANGED <<pool_state, max_workers, chain_queue, unfinished, shutdown,
                   executor_down, wchain, wres, cpc, pool_ret, enqueued, runs,
                   started>>
    /\ UNCHANGED <<chainVars, memVars, pureVars, sendVars>>

\* An executor that takes work after its shutdown.
SubmitNeverRefused == FALSE

\* ThreadPoolExecutor.submit raises RuntimeError once shutdown() has been
\* called on the executor.
SubmitRefused == executor_down

\* start_pool: self._executor.submit(self._worker), once per worker. On an
\* executor that has been shut down submit raises RuntimeError: the handler
\* sets the shutdown flag and raises ThreadingError, and the finally clause
\* shuts the executor down. After the last submit comes chain_queue.join().
Submit ==
    /\ spc = "submit"
    /\ IF SubmitRefused
       THEN /\ shutdown' = TRUE
            /\ raising' = "ThreadingError"
            /\ spc' = "wait"
            /\ UNCHANGED <<submitted, wpc>>
       ELSE /\ submitted' = submitted + 1
            /\ wpc' = [wpc EXCEPT ![submitted + 1] = "loop"]
            /\ spc' = IF submitted + 1 = WorkerCount(max_workers)
                      THEN "join" ELSE "submit"
            /\ UNCHANGED <<shutdown, raising>>
    /\ UNCHANGED <<pool_state, max_workers, chain_queue, unfinished,
                   executor_down, wchain, wres, cpc, pool_ret, enqueued, runs,
                   started>>
    /\ UNCHANGED <<chainVars, memVars, pureVars, sendVars>>

\* start_pool: chain_queue.join() returns once no task is unfinished, and the
\* finally clause begins self._executor.shutdown(wait=True).
Join ==
    /\ spc = "join"
    /\ unfinished = 0
    /\ spc' = "wait"
    /\ executor_down' = TRUE
    /\ UNCHANGED <<pool_state, max_workers, chain_queue, unfinished, shutdown,
                   wpc, wchain, wres, submitted, raising, cpc, pool_ret,
                   enqueued, runs, started>>
    /\ UNCHANGED <<chainVars, memVars, pureVars, sendVars>>

\* Every _worker call that was submitted has returned.
WorkersDone == \A w \in workers : wpc[w] \in {"unsubmitted", "exit"}

\* start_pool: shutdown(wait=True) has waited for the workers, and the call
\* returns or raises.
StartPoolReturn ==
    /\ spc = "wait"
    /\ WorkersDone
    /\ spc' = "idle"
    /\ executor_down' = TRUE
    /\ pool_ret' = PoolResult("start_pool", raising)
    /\ UNCHANGED <<pool_state, max_workers, chain_queue, unfinished, shutdown,
                   wpc, wchain, wres, submitted, raising, cpc, enqueued, runs,
                   started>>
    /\ UNCHANGED <<chainVars, memVars, pureVars, sendVars>>

\* ChainPool.cleanup(), called by another thread: the shutdown flag is set
\* and self._executor.shutdown(wait=True) begins.
cleanup ==
    /\ cpc = "idle"
    /\ cpc' = "wait"
    /\ shutdown' = TRUE
    /\ executor_down' = TRUE
    /\ UNCHANGED <<pool_state, max_workers, chain_queue, unfinished, wpc,
                   wchain, wres, spc, submitted, raising, pool_ret, enqueued,
                   runs, started>>
    /\ UNCHANGED <<chainVars, memVars, pureVars, sendVars>>

\* cleanup: shutdown(wait=True) has waited for the workers, and the call
\* returns.
CleanupReturn ==
    /\ cpc = "wait"
    /\ WorkersDone
    /\ cpc' = "idle"
    /\ pool_ret' = PoolResult("cleanup", "ok")
    /\ UNCHANGED <<pool_state, max_workers, chain_queue, unfinished, shutdown,
                   executor_down, wpc, wchain, wres, spc, submitted, raising,
                   enqueued, runs, started>>
    /\ UNCHANGED <<chainVars, memVars, pureVars, sendVars>>

\* A get that leaves the chain on the queue.
QueueAfterPeek(q) == q

\* chain_queue.get_nowait() removes the oldest entry: the queue it leaves.
QueueAfterGet(q) == Tail(q)

\* _worker: `while not self._shutdown.is_set()`, then get_nowait(): the
\* worker leaves when the flag is set or the queue is empty, and takes the
\* oldest chain otherwise.
WorkerLoop(w) ==
    /\ wpc[w] = "loop"
    /\ IF shutdown \/ chain_queue = <<>>
       THEN /\ wpc' = [wpc EXCEPT ![w] = "exit"]
            /\ UNCHANGED <<chain_queue, wchain>>
       ELSE /\ wchain' = [wchain EXCEPT ![w] = Head(chain_queue)]
            /\ chain_queue' = QueueAfterGet(chain_queue)
            /\ wpc' = [wpc EXCEPT ![w] = "got"]
    /\ UNCHANGED <<pool_state, max_workers, unfinished, shutdown, executor_down,
                   wres, spc, submitted, raising, cpc, pool_ret, enqueued, runs,
                   started>>
    /\ UNCHANGED <<chainVars, memVars, pureVars, sendVars>>

\* _worker: chain.run_step() is called, once the chain's lock is free. A call
\* the chain refuses raises at once.
WorkerRunStep(w) ==
    /\ wpc[w] = "got"
    /\ run_step(wchain[w], w)
    /\ runs' = [runs EXCEPT ![wchain[w]] = @ + 1]
    /\ IF lock'[wchain[w]] = {w}
       THEN /\ wpc' = [wpc EXCEPT ![w] = "running"]
            /\ UNCHANGED wres
       ELSE /\ wpc' = [wpc EXCEPT ![w] = "finally"]
            /\ wres' = [wres EXCEPT ![w] = ret'.res]
    /\ UNCHANGED <<pool_state, max_workers, chain_queue, unfinished, shutdown,
                   executor_down, wchain, spc, submitted, raising, cpc,
                   pool_ret, enqueued, started>>
    /\ UNCHANGED <<memVars, pureVars, sendVars>>

\* _worker, inside chain.run_step(): an attempt of a step begins.
WorkerStepCall(w) ==
    /\ wpc[w] = "running"
    /\ StepCall(wchain[w], w)
    /\ UNCHANGED <<poolVars, memVars, pureVars, sendVars>>

\* _worker, inside chain.run_step(): the attempt ends; when it ends the run,
\* run_step returns or raises.
WorkerStepReturn(w) ==
    /\ wpc[w] = "running"
    /\ StepReturn(wchain[w], w)
    /\ IF lock'[wchain[w]] = {}
       THEN /\ wpc' = [wpc EXCEPT ![w] = "finally"]
            /\ wres' = [wres EXCEPT ![w] = ret'.res]
       ELSE UNCHANGED <<wpc, wres>>
    /\ UNCHANGED <<pool_state, max_workers, chain_queue, unfinished, shutdown,
                   executor_down, wchain, spc, submitted, raising, cpc,
                   pool_ret, enqueued, runs, started>>
    /\ UNCHANGED <<memVars, pureVars, sendVars>>

\* A worker without the handler: what run_step raises ends the worker.
WorkerStopsOnError(res) == res = "ok"

\* _worker's `except Exception`: whatever run_step raised is logged, and the
\* worker goes on.
WorkerContinues(res) == TRUE

\* _worker: task_done() in the finally clause, the sleep, and back to the
\* loop's test; the worker is done with its chain.
WorkerTaskDone(w) ==
    /\ wpc[w] = "finally"
    /\ unfinished' = unfinished - 1
    /\ wpc' = [wpc EXCEPT ![w] = IF WorkerContinues(wres[w]) THEN "loop" ELSE "exit"]
    /\ wchain' = [wchain EXCEPT ![w] = 0]
    /\ wres' = [wres EXCEPT ![w] = "none"]
    /\ UNCHANGED <<pool_state, max_workers, chain_queue, shutdown, executor_down,
                   spc, submitted, raising, cpc, pool_ret, enqueued, runs,
                   started>>
    /\ UNCHANGED <<chainVars, memVars, pureVars, sendVars>>

\* ------------------------------------------------------------------ a pool and its chains

\* The sequences over S of length at most n.
SeqsUpTo(S, n) == UNION {[1..k -> S] : k \in 0..n}

\* The step list of a chain of two steps: both succeed, or, in a chain
\* constructed to fail at step 2, the second fails at every attempt.
PlannedSteps(fails) ==
    [s \in 1..2 |-> IF fails /\ s = 2 THEN {"act_fail"}
                    ELSE {CHOOSE r \in Responses : TRUE}]

\* A pool of 1..MaxWorkers workers and 1..MaxChains chains of two steps, some
\* of them READY, and some of these constructed to fail at step 2.
InitPool ==
    \E k \in 1..MaxChains, mw \in 1..MaxWorkers :
        \E ready \in SUBSET (1..k) :
            \E failing \in SUBSET ready :
                /\ ChainInit(1..k, [c \in 1..k |-> 2],
                             [c \in 1..k |-> PlannedSteps(c \in failing)],
                             ready, CHOOSE x \in Inputs : TRUE)
                /\ PoolInit(mw, 1..k)
                /\ NoMemory
                /\ NoPure
                /\ NoSend

\* The lists of chains add_chains is called with: at most as long as there
\* are chains, a chain may occur twice, and (the chains being numbered in the
\* order in which the list first names them) chain c is first named after
\* the chains 1..c-1.
ChainLists ==
    {cs \in SeqsUpTo(chains, Cardinality(chains)) :
        \A i \in 1..Len(cs) :
            \A c \in 1..(cs[i] - 1) : \E j \in 1..(i - 1) : cs[j] = c}

\* add_chains is called. A call that is refused never reads its argument, so
\* one argument stands for all of them.
AddChains ==
    \E cs \in (IF pool_state = INIT THEN ChainLists ELSE {<<1>>}) : add_chains(cs)

NextPool ==
    \/ AddChains
    \/ start_pool
    \/ Submit
    \/ Join
    \/ StartPoolReturn
    \/ \E w \in workers : WorkerLoop(w)
    \/ \E w \in workers : WorkerRunStep(w)
    \/ \E w \in workers : WorkerStepCall(w)
    \/ \E w \in workers : WorkerStepReturn(w)
    \/ \E w \in workers : WorkerTaskDone(w)

SpecPool == InitPool /\ [][NextPool]_vars

NextPoolCleanup == NextPool \/ cleanup \/ CleanupReturn

SpecPoolCleanup == InitPool /\ [][NextPoolCleanup]_vars

\* start_pool, once past its guard, goes on.
StartPoolProgress == Submit \/ Join \/ StartPoolReturn

\* Worker w goes on, and the call it made to the completion service returns
\* or raises.
WorkerProgress(w) ==
    /\ w \in workers
    /\ \/ WorkerLoop(w)
       \/ WorkerRunStep(w)
       \/ WorkerStepCall(w)
       \/ WorkerStepReturn(w)
       \/ WorkerTaskDone(w)

\* Every thread that can take a step takes one in the end, and every chain
\* run terminates; nothing is assumed about when the pool's methods are
\* called.
PoolFairness ==
    /\ WF_vars(StartPoolProgress)
    /\ WF_vars(CleanupReturn)
    /\ \A w \in 1..MaxWorkers : WF_vars(WorkerProgress(w))

FairSpecPool == SpecPool /\ PoolFairness

FairSpecPoolCleanup == SpecPoolCleanup /\ PoolFairness

\* ------------------------------------------------------------------ Memory and MemoryFactory

\* Number of threads that call the memory's methods.
NumCallers == 2
\* Largest number of entries the collection is filled with.
MaxItems == 2
\* Largest batch handed to MemoryFactory.add_short_term_memory.
MaxBatch == 2
\* Largest max_results a factory is constructed with.
MaxResults == 1
MaxResponseLen == 3

\* The tasks added to a ThreadSend at most, and its threads at most.
MaxTasks == 3
MaxSendThreads == 2

\* The agents' component_id.
Agents == {1, 2}

\* <<source, target>> of the memory items.
ItemKinds == Agents \X Agents

\* The texts the reflection prompt may return.
Summaries == {<<"s1">>, <<"s2">>}

callers == 1..NumCallers

RECURSIVE str(_)
\* str(idx) for idx >= 0: the decimal digits, most significant first.
str(n) == IF n < 10 THEN <<n>> ELSE str(n \div 10) \o <<n % 10>>

RECURSIVE int(_)
\* int(item_id): the number the decimal digits stand for.
int(digits) ==
    IF Len(digits) = 1 THEN digits[1]
    ELSE 10 * int(SubSeq(digits, 1, Len(digits) - 1)) + digits[Len(digits)]

\* A batch of m MemoryItems from `source` to `target`, both agents; the
\* timestamp, action and content, which no lock, id or filter depends on, are
\* the same in all.
Batch(kind, m) ==
    [i \in 1..m |-> [timestamp |-> <<"float", <<1>>>>,
                     source |-> kind[1], target |-> kind[2],
                     action |-> <<"str", <<1>>>>, content |-> <<"str", <<1>>>>,
                     item_id |-> -1]]

\* A conversion that exchanges source and target.
to_dict_swapped(self) ==
    [timestamp |-> self.timestamp, source |-> self.target,
     target |-> self.source, action |-> self.action,
     content |-> self.content, id |-> self.item_id]

\* MemoryItem.to_dict(): the dictionary of the item's fields.
to_dict(self) ==
    [timestamp |-> self.timestamp, source |-> self.source,
     target |-> self.target, action |-> self.action,
     content |-> self.content, id |-> self.item_id]

\* An enumeration that starts one after start_id.
to_lists_from_next(memory_items, start_id) ==
    [i \in 1..Len(memory_items) |->
        LET idx == start_id + i
            item_dict == [to_dict(memory_items[i]) EXCEPT !.id = idx]
        IN  [key |-> str(idx), document |-> item_dict.content,
             timestamp |-> item_dict.timestamp, source |-> item_dict.source,
             target |-> item_dict.target, action |-> item_dict.action,
             content |-> item_dict.content, id |-> item_dict.id]]

\* MemoryItem.to_lists(memory_items, start_id), the three lists as one
\* sequence of entries: for the i-th item, enumerated from start_id, the
\* content (content_list), the item's dictionary with "id" set to the index
\* (metadata_list), and str of the index (id_list) as the entry's key.
to_lists(memory_items, start_id) ==
    [i \in 1..Len(memory_items) |->
        LET idx == start_id + i - 1
            item_dict == [to_dict(memory_items[i]) EXCEPT !.id = idx]
        IN  [key |-> str(idx), document |-> item_dict.content,
             timestamp |-> item_dict.timestamp, source |-> item_dict.source,
             target |-> item_dict.target, action |-> item_dict.action,
             content |-> item_dict.content, id |-> item_dict.id]]

\* A filter on the source alone.
InvolvesAsSource(e, a) == e.source = a

\* No filter.
InvolvesAnyone(e, a) == TRUE

\* where {"$or": [{"source": agent_id}, {"target": agent_id}]}.
Involves(e, a) == e.source = a \/ e.target = a

\* A window that takes the entry at the high-water id again.
InWindowInclusive(e, last) == e.id >= last

\* where {"id": {"$gt": last_reflection_id}}.
InWindow(e, last) == e.id > last

\* memory_collection.get(where=...) in reflect_on_memory: the entries newer
\* than last_reflection_id in which the agent is source or target.
get(a, last) ==
    SelectSeq(collection, LAMBDA e : InWindow(e, last) /\ Involves(e, a))

\* A high-water id that is always the default.
HighWaterUnchanged(fetched, last) == last

\* max((int(item_id) for item_id in memory_items["ids"]), default=last).
HighWater(fetched, last) ==
    IF fetched = <<>> THEN last
    ELSE LET ids == {int(fetched[i].key) : i \in 1..Len(fetched)}
         IN  CHOOSE m \in ids : \A n \in ids : n <= m

\* The values a field of a MemoryItem is given: a type name and the text of
\* the value (a sequence of digits, empty for the empty string).
FieldValues == {<<"str", <<>>>>, <<"str", <<1>>>>, <<"str", <<2>>>>, <<"int", <<1>>>>}

TimestampValues == {<<"float", <<1>>>>, <<"int", <<1>>>>, <<"str", <<1>>>>}

\* isinstance(x, str).
IsStr(x) == x[1] = "str"

\* isinstance(self.timestamp, (int, float)).
IsNumber(x) == x[1] \in {"int", "float"}

\* `not x` of a string: it is empty.
Empty(x) == x[2] = <<>>

\* MemoryItem.__post_init__: the ValidationError it raises, or "ok".
post_init(self) ==
    IF ~IsNumber(self.timestamp) THEN "ValidationError"
    ELSE IF \E x \in {self.source, self.target, self.action, self.content} : ~IsStr(x)
         THEN "ValidationError"
    ELSE IF Empty(self.source) \/ Empty(self.target) THEN "ValidationError"
    ELSE "ok"

\* MemoryItem(timestamp=..., source=..., target=..., action=..., content=...):
\* "ok" and the item made, or the exception raised alone.
MemoryItem(timestamp, source, target, action, content) ==
    LET self == [timestamp |-> timestamp, source |-> source, target |-> target,
                 action |-> action, content |-> content, item_id |-> -1]
    IN  IF post_init(self) = "ok" THEN <<"ok", self>> ELSE <<post_init(self)>>

\* The item as the factory's model keeps it: the agents its source and
\* target name.
AsEntry(item) ==
    [item EXCEPT !.source = int(item.source[2]), !.target = int(item.target[2])]

\* The locals of a call, before any is set; `via` tells whether the factory
\* was called directly ("factory") or by a Memory method ("memory").
NoLocal ==
    [via |-> "factory", agent |-> 0, batch |-> <<>>, start_pos |-> 0,
     last |-> -1, ltm |-> None, fetched |-> <<>>, response |-> None,
     last_id |-> -1, raised |-> "none"]

\* How a call ended: the level it was made at, what the caller got ("ok" or
\* the exception), what the MemoryFactory method returned or raised, the
\* failure underneath, and the ids of the entries returned.
MemResult(via, res, factory, cause, val) ==
    [via |-> via, res |-> res, factory |-> factory, cause |-> cause, val |-> val]

NoResult == MemResult("none", "none", "none", "none", {})

\* MemoryFactory.__init__(max_results=n) with an empty collection, and a
\* Memory for every agent.
MemoryInit(n) ==
    /\ collection = <<>>
    /\ max_results = n
    /\ client_reset = FALSE
    /\ reflected = [a \in Agents |-> <<>>]
    /\ flock = [name \in {"collection", "reflection"} |-> {}]
    /\ long_term_memory = [a \in Agents |-> None]
    /\ last_reflection_id = [a \in Agents |-> -1]
    /\ alock = [a \in Agents |-> {}]
    /\ mpc = [t \in callers |-> "idle"]
    /\ mlocal = [t \in callers |-> NoLocal]
    /\ mres = [t \in callers |-> NoResult]

\* An acquire that never finds the lock taken.
LockNeverHeld(name, t) == TRUE

\* lock.acquire(timeout=timeout) on the RLock self._locks[name] succeeds for
\* thread t: no other thread holds it.
LockFree(name, t) == flock[name] \subseteq {t}

\* _acquire_locks' finally clause: the locks thread t acquired are released.
Released(t) == [name \in DOMAIN flock |-> flock[name] \ {t}]

\* A timeout that is raised on as any other failure.
TimeoutRaisesMemoryError == "MemoryError"

\* `except TimeoutError as e: raise ThreadingError(...)` in the factory's
\* methods.
TimeoutRaises == "ThreadingError"

\* An index failure that is let through as it is.
IndexFailureRaw == "IndexFailure"

\* `except Exception as e: raise MemoryError(...)` in the factory's methods.
IndexFailureRaises == "MemoryError"

\* What the factory raises for the failure `cause`.
FactoryRaises(cause) ==
    IF cause = "TimeoutError" THEN TimeoutRaises ELSE IndexFailureRaises

\* A Memory that lets the factory's exception through.
WrappedNot(via, factory) == factory

\* Memory's handlers, `except Exception as e: raise MemoryError(...)`: what
\* the caller gets when the factory returned or raised `factory`.
Wrapped(via, factory) ==
    IF via = "memory" /\ factory # "ok" THEN "MemoryError" ELSE factory

\* The call of thread t ends, the factory having failed by `cause` ("none":
\* it returned val): its locals go, its result stays.
Finish(t, via, cause, val) ==
    LET factory == IF cause = "none" THEN "ok" ELSE FactoryRaises(cause)
    IN  /\ mpc' = [mpc EXCEPT ![t] = "idle"]
        /\ mlocal' = [mlocal EXCEPT ![t] = NoLocal]
        /\ mres' = [mres EXCEPT ![t] =
                       MemResult(via, Wrapped(via, factory), factory, cause, val)]

\* MemoryFactory.add_short_term_memory(memory_items) called by thread t
\* (directly, or by Memory.add_short_term_memory), up to
\* memory_collection.count(): the collection lock is acquired, or the wait
\* for it times out (TimeoutError, raised on as ThreadingError); count() gives
\* the first id of the batch, or the index fails (MemoryError).
add_short_term_memory(t, via, memory_items) ==
    /\ mpc[t] = "idle"
    /\ IF LockFree("collection", t)
       THEN \/ /\ ~client_reset
               /\ flock' = [flock EXCEPT !["collection"] = @ \cup {t}]
               /\ mpc' = [mpc EXCEPT ![t] = "add"]
               /\ mlocal' = [mlocal EXCEPT ![t] =
                                [NoLocal EXCEPT !.via = via,
                                                !.batch = memory_items,
                                                !.start_pos = Len(collection)]]
               /\ mres' = [mres EXCEPT ![t] = NoResult]
            \/ /\ Finish(t, via, "IndexFailure", {})
               /\ UNCHANGED flock
       ELSE /\ Finish(t, via, "TimeoutError", {})
            /\ UNCHANGED flock
    /\ UNCHANGED <<collection, max_results, client_reset, reflected,
                   long_term_memory, last_reflection_id, alock>>

\* add_short_term_memory: to_lists and memory_collection.add(...), then the
\* lock is released and True returned; or the index fails, and the lock is
\* released and MemoryError raised.
AddInsert(t) ==
    /\ mpc[t] = "add"
    /\ flock' = Released(t)
    /\ \/ /\ ~client_reset
          /\ collection' = collection \o to_lists(mlocal[t].batch, mlocal[t].start_pos)
          /\ Finish(t, mlocal[t].via, "none", {})
       \/ /\ Finish(t, mlocal[t].via, "IndexFailure", {})
          /\ UNCHANGED collection
    /\ UNCHANGED <<max_results, client_reset, reflected, long_term_memory,
                   last_reflection_id, alock>>

\* MemoryFactory.search_short_term_memory(query_contents, agent_id) called by
\* thread t (directly, or by Memory.search_short_term_memory) for one query
\* text, up to the query: the collection lock is acquired, or the wait for it
\* times out.
search_short_term_memory(t, via, agent_id) ==
    /\ mpc[t] = "idle"
    /\ IF LockFree("collection", t)
       THEN /\ flock' = [flock EXCEPT !["collection"] = @ \cup {t}]
            /\ mpc' = [mpc EXCEPT ![t] = "search"]
            /\ mlocal' = [mlocal EXCEPT ![t] =
                             [NoLocal EXCEPT !.via = via, !.agent = agent_id]]
            /\ mres' = [mres EXCEPT ![t] = NoResult]
       ELSE /\ Finish(t, via, "TimeoutError", {})
            /\ UNCHANGED flock
    /\ UNCHANGED <<collection, max_results, client_reset, reflected,
                   long_term_memory, last_reflection_id, alock>>

\* The entries memory_collection.query(...) may return for the agent: of those
\* in which it is source or target, max_results (whichever the similarity
\* ranks first), or all of them when they are fewer.
QueryResults(agent_id) ==
    LET matching == {i \in 1..Len(collection) : Involves(collection[i], agent_id)}
        n == IF Cardinality(matching) < max_results
             THEN Cardinality(matching) ELSE max_results
    IN  {{collection[i].id : i \in R} : R \in {Q \in SUBSET matching : Cardinality(Q) = n}}

\* search_short_term_memory: the query, then the lock is released and the
\* result returned; or the index fails, and MemoryError is raised.
SearchQuery(t) ==
    /\ mpc[t] = "search"
    /\ flock' = Released(t)
    /\ \/ /\ ~client_reset
          /\ \E result \in QueryResults(mlocal[t].agent) :
                Finish(t, mlocal[t].via, "none", result)
       \/ Finish(t, mlocal[t].via, "IndexFailure", {})
    /\ UNCHANGED <<collection, max_results, client_reset, reflected,
                   long_term_memory, last_reflection_id, alock>>

\* A lock that any thread gets at once.
AgentLockIgnored(a, t) == TRUE

\* `with self._lock` in Memory.reflect_on_memory succeeds for thread t: no
\* other thread holds the agent's lock.
AgentLockFree(a, t) == alock[a] \subseteq {t}

\* Memory.reflect_on_memory() of agent a called by thread t: the agent's lock
\* is acquired (the thread waits for it as long as it takes), and
\* last_reflection_id and long_term_memory are read as the arguments of
\* MemoryFactory.reflect_on_memory.
reflect_on_memory(t, a) ==
    /\ mpc[t] = "idle"
    /\ AgentLockFree(a, t)
    /\ alock' = [alock EXCEPT ![a] = @ \cup {t}]
    /\ mpc' = [mpc EXCEPT ![t] = "reflect"]
    /\ mlocal' = [mlocal EXCEPT ![t] =
                     [NoLocal EXCEPT !.via = "memory",
                                     !.agent = a,
                                     !.last = last_reflection_id[a],
                                     !.ltm = long_term_memory[a]]]
    /\ mres' = [mres EXCEPT ![t] = NoResult]
    /\ UNCHANGED <<collection, max_results, client_reset, reflected, flock,
                   long_term_memory, last_reflection_id>>

\* A failed reflect that stores the largest id it fetched all the same.
ReflectFailsAdvancing(t, cause) ==
    /\ alock' = [alock EXCEPT ![mlocal[t].agent] = @ \ {t}]
    /\ last_reflection_id' = [last_reflection_id EXCEPT ![mlocal[t].agent] =
                                 HighWater(mlocal[t].fetched, mlocal[t].last)]
    /\ Finish(t, "memory", cause, {})
    /\ UNCHANGED <<collection, max_results, client_reset, reflected,
                   long_term_memory>>

\* MemoryFactory.reflect_on_memory raises for the failure `cause`, and
\* Memory.reflect_on_memory's handler raises it on as MemoryError; the
\* agent's lock is released, and neither field is written.
ReflectFails(t, cause) ==
    /\ alock' = [alock EXCEPT ![mlocal[t].agent] = @ \ {t}]
    /\ Finish(t, "memory", cause, {})
    /\ UNCHANGED <<collection, max_results, client_reset, reflected,
                   long_term_memory, last_reflection_id>>

\* The sequence backwards.
Reverse(seq) == [i \in 1..Len(seq) |-> seq[Len(seq) + 1 - i]]

\* A release in the order of acquisition.
ReleaseInOrder(acquired) == acquired

\* _acquire_locks' finally clause, `for lock in reversed(acquired)`: the
\* order in which the locks acquired are released.
ReleaseOrder(acquired) == Reverse(acquired)

\* Both locks, reflection first.
ReflectionFirst == <<"reflection", "collection">>

\* self._acquire_locks("collection", "reflection"): the order of acquisition.
LockOrder == <<"collection", "reflection">>

\* MemoryFactory.reflect_on_memory, _acquire_locks' first acquire: the lock
\* is acquired, or the wait times out (ThreadingError).
ReflectAcquireFirst(t) ==
    /\ mpc[t] = "reflect"
    /\ IF LockFree(LockOrder[1], t)
       THEN /\ flock' = [flock EXCEPT ![LockOrder[1]] = @ \cup {t}]
            /\ mpc' = [mpc EXCEPT ![t] = "reflect2"]
            /\ UNCHANGED <<collection, max_results, client_reset, reflected,
                           long_term_memory, last_reflection_id, alock,
                           mlocal, mres>>
       ELSE /\ ReflectFails(t, "TimeoutError")
            /\ UNCHANGED flock

\* MemoryFactory.reflect_on_memory, _acquire_locks' second acquire and the
\* fetch: with both locks held memory_collection.get(...) gives the agent's
\* new entries and the prompt is sent; when the wait times out or the index
\* fails, what is held is released.
ReflectAcquireSecond(t) ==
    /\ mpc[t] = "reflect2"
    /\ IF LockFree(LockOrder[2], t)
       THEN \/ /\ ~client_reset
               /\ flock' = [flock EXCEPT ![LockOrder[2]] = @ \cup {t}]
               /\ mpc' = [mpc EXCEPT ![t] = "send"]
               /\ mlocal' = [mlocal EXCEPT ![t].fetched =
                                get(mlocal[t].agent, mlocal[t].last)]
               /\ UNCHANGED <<collection, max_results, client_reset, reflected,
                              long_term_memory, last_reflection_id, alock,
                              mres>>
            \/ /\ flock' = [[flock EXCEPT ![LockOrder[2]] = @ \cup {t}]
                             EXCEPT ![ReleaseOrder(LockOrder)[1]] = @ \ {t}]
               /\ mpc' = [mpc EXCEPT ![t] = "release"]
               /\ mlocal' = [mlocal EXCEPT ![t].raised = "IndexFailure"]
               /\ UNCHANGED <<collection, max_results, client_reset, reflected,
                              long_term_memory, last_reflection_id, alock,
                              mres>>
       ELSE /\ flock' = Released(t)
            /\ ReflectFails(t, "TimeoutError")

\* MemoryFactory.reflect_on_memory: reflection_prompt.send_prompt(...) returns
\* the new summary and last_id is computed, or send_prompt raises PromptError;
\* the with block is left, and the first of the locks to release is released.
ReflectSend(t) ==
    /\ mpc[t] = "send"
    /\ flock' = [flock EXCEPT ![ReleaseOrder(LockOrder)[1]] = @ \ {t}]
    /\ mpc' = [mpc EXCEPT ![t] = "release"]
    /\ \/ \E response \in Summaries :
             mlocal' = [mlocal EXCEPT
                           ![t].response = response,
                           ![t].last_id = HighWater(mlocal[t].fetched, mlocal[t].last)]
       \/ mlocal' = [mlocal EXCEPT ![t].raised = "PromptError"]
    /\ UNCHANGED <<collection, max_results, client_reset, reflected,
                   long_term_memory, last_reflection_id, alock, mres>>

\* MemoryFactory.reflect_on_memory: the other lock is released, and
\* (response, last_id) is returned to Memory.reflect_on_memory, or what the
\* body raised is raised on.
ReflectRelease(t) ==
    /\ mpc[t] = "release"
    /\ flock' = [flock EXCEPT ![ReleaseOrder(LockOrder)[2]] = @ \ {t}]
    /\ IF mlocal[t].raised = "none"
       THEN /\ mpc' = [mpc EXCEPT ![t] = "write_id"]
            /\ UNCHANGED <<collection, max_results, client_reset, reflected,
                           long_term_memory, last_reflection_id, alock,
                           mlocal, mres>>
       ELSE ReflectFails(t, mlocal[t].raised)

\* Memory.reflect_on_memory: self.last_reflection_id = last_id.
ReflectWriteId(t) ==
    /\ mpc[t] = "write_id"
    /\ last_reflection_id' = [last_reflection_id EXCEPT ![mlocal[t].agent] = mlocal[t].last_id]
    /\ mpc' = [mpc EXCEPT ![t] = "write_ltm"]
    /\ UNCHANGED <<collection, max_results, client_reset, reflected, flock,
                   long_term_memory, alock, mlocal, mres>>

\* Memory.reflect_on_memory: self.long_term_memory = response; the agent's
\* lock is released and the call returns. The reflect has succeeded: what it
\* fetched is on record.
ReflectWriteLtm(t) ==
    /\ mpc[t] = "write_ltm"
    /\ long_term_memory' = [long_term_memory EXCEPT ![mlocal[t].agent] = mlocal[t].response]
    /\ alock' = [alock EXCEPT ![mlocal[t].agent] = @ \ {t}]
    /\ reflected' = [reflected EXCEPT ![mlocal[t].agent] =
                        @ \o [i \in 1..Len(mlocal[t].fetched) |-> mlocal[t].fetched[i].id]]
    /\ Finish(t, "memory", "none", {})
    /\ UNCHANGED <<collection, max_results, client_reset, flock, last_reflection_id>>

\* Memory.add_short_term_memory(source, target, action, content, timestamp)
\* called by thread t: the MemoryItem is made and handed to the factory in a
\* batch of one, or its validation fails, and the handler raises the
\* ValidationError on as MemoryError.
Memory_add_short_term_memory(t, source, target, action, content, timestamp) ==
    LET made == MemoryItem(timestamp, source, target, action, content)
    IN  IF made[1] = "ValidationError"
        THEN /\ mpc[t] = "idle"
             /\ mres' = [mres EXCEPT ![t] =
                            MemResult("memory", Wrapped("memory", "ValidationError"),
                                      "none", "ValidationError", {})]
             /\ UNCHANGED <<collection, max_results, client_reset, reflected,
                            flock, long_term_memory, last_reflection_id, alock,
                            mpc, mlocal>>
        ELSE add_short_term_memory(t, "memory", <<AsEntry(made[2])>>)

\* Memory.search_short_term_memory(query_contents) of agent a called by
\* thread t: the factory's search with the agent's component_id.
Memory_search_short_term_memory(t, a) == search_short_term_memory(t, "memory", a)

\* A handler that raises the failure on.
Reraised(failure) == failure

\* `except Exception as e: logger.error(...)` in MemoryFactory.cleanup: the
\* failure is logged, and the call returns.
Logged(failure) == "ok"

\* MemoryFactory.cleanup() called by thread t: self.client.reset() begins; no
\* lock is acquired.
factory_cleanup(t) ==
    /\ mpc[t] = "idle"
    /\ mpc' = [mpc EXCEPT ![t] = "reset"]
    /\ mres' = [mres EXCEPT ![t] = NoResult]
    /\ UNCHANGED <<collection, max_results, client_reset, reflected, flock,
                   long_term_memory, last_reflection_id, alock, mlocal>>

\* cleanup: client.reset() drops what the index holds, the collection with
\* it, or fails, which is logged; the call returns.
CleanupReset(t) ==
    /\ mpc[t] = "reset"
    /\ mpc' = [mpc EXCEPT ![t] = "idle"]
    /\ \/ /\ collection' = <<>>
          /\ client_reset' = TRUE
          /\ mres' = [mres EXCEPT ![t] = MemResult("cleanup", "ok", "ok", "none", {})]
       \/ /\ mres' = [mres EXCEPT ![t] =
                         MemResult("cleanup", Logged("ResetFailure"),
                                   Logged("ResetFailure"), "ResetFailure", {})]
          /\ UNCHANGED <<collection, client_reset>>
    /\ UNCHANGED <<max_results, reflected, flock, long_term_memory,
                   last_reflection_id, alock, mlocal>>

\* ------------------------------------------------------------------ a memory and its callers

\* A factory of 1..MaxResults results with an empty collection, the agents'
\* memories, and NumCallers threads; no chain and no pool.
InitMemory ==
    /\ \E n \in 1..MaxResults : MemoryInit(n)
    /\ ChainInit({}, <<>>, <<>>, {}, None)
    /\ NoPool
    /\ NoPure
    /\ NoSend

\* A batch is added, as long as the collection stays within MaxItems entries.
CallAdd ==
    /\ \E t \in callers, kind \in ItemKinds, m \in 1..MaxBatch :
          /\ Len(collection) + m <= MaxItems
          /\ add_short_term_memory(t, "factory", Batch(kind, m))
    /\ UNCHANGED <<chainVars, poolVars, pureVars, sendVars>>

CallAddInsert ==
    /\ \E t \in callers : AddInsert(t)
    /\ UNCHANGED <<chainVars, poolVars, pureVars, sendVars>>

CallSearch ==
    /\ \E t \in callers, a \in Agents : search_short_term_memory(t, "factory", a)
    /\ UNCHANGED <<chainVars, poolVars, pureVars, sendVars>>

CallSearchQuery ==
    /\ \E t \in callers : SearchQuery(t)
    /\ UNCHANGED <<chainVars, poolVars, pureVars, sendVars>>

CallReflect ==
    /\ \E t \in callers, a \in Agents : reflect_on_memory(t, a)
    /\ UNCHANGED <<chainVars, poolVars, pureVars, sendVars>>

CallReflectAcquireFirst ==
    /\ \E t \in callers : ReflectAcquireFirst(t)
    /\ UNCHANGED <<chainVars, poolVars, pureVars, sendVars>>

CallReflectAcquireSecond ==
    /\ \E t \in callers : ReflectAcquireSecond(t)
    /\ UNCHANGED <<chainVars, poolVars, pureVars, sendVars>>

CallReflectSend ==
    /\ \E t \in callers : ReflectSend(t)
    /\ UNCHANGED <<chainVars, poolVars, pureVars, sendVars>>

CallReflectRelease ==
    /\ \E t \in callers : ReflectRelease(t)
    /\ UNCHANGED <<chainVars, poolVars, pureVars, sendVars>>

CallReflectWriteId ==
    /\ \E t \in callers : ReflectWriteId(t)
    /\ UNCHANGED <<chainVars, poolVars, pureVars, sendVars>>

CallReflectWriteLtm ==
    /\ \E t \in callers : ReflectWriteLtm(t)
    /\ UNCHANGED <<chainVars, poolVars, pureVars, sendVars>>

NextMemory ==
    \/ CallAdd
    \/ CallAddInsert
    \/ CallSearch
    \/ CallSearchQuery
    \/ CallReflect
    \/ CallReflectAcquireFirst
    \/ CallReflectAcquireSecond
    \/ CallReflectSend
    \/ CallReflectRelease
    \/ CallReflectWriteId
    \/ CallReflectWriteLtm

SpecMemory == InitMemory /\ [][NextMemory]_vars

\* The agent thread t adds items about: the callers take the agents in turn.
AgentOf(t) == 1 + (t % Cardinality(Agents))

\* Batches are added, each thread's of items from its agent to itself, and
\* NumCallers batches of MaxBatch items at most in all.
CallAddBatch ==
    /\ \E t \in callers, m \in 1..MaxBatch :
          /\ Len(collection) + m <= NumCallers * MaxBatch
          /\ add_short_term_memory(t, "factory", Batch(<<AgentOf(t), AgentOf(t)>>, m))
    /\ UNCHANGED <<chainVars, poolVars, pureVars, sendVars>>

NextMemoryAdd ==
    \/ CallAddBatch
    \/ CallAddInsert

\* Concurrent callers of add_short_term_memory, and nothing else.
SpecMemoryAdd == InitMemory /\ [][NextMemoryAdd]_vars

CallCleanup ==
    /\ \E t \in callers : factory_cleanup(t)
    /\ UNCHANGED <<chainVars, poolVars, pureVars, sendVars>>

CallCleanupReset ==
    /\ \E t \in callers : CleanupReset(t)
    /\ UNCHANGED <<chainVars, poolVars, pureVars, sendVars>>

NextMemoryCleanup ==
    \/ NextMemory
    \/ CallCleanup
    \/ CallCleanupReset

\* The callers of the factory and of the memories, and the factory's cleanup
\* called by any of them at any time.
SpecMemoryCleanup == InitMemory /\ [][NextMemoryCleanup]_vars

\* The texts an agent's memory is given as a source: an agent's id, or the
\* empty string.
SourceTexts == {<<"str", str(a)>> : a \in Agents} \cup {<<"str", <<>>>>}

\* An item is added through the memory of the caller's agent, with the agent
\* as target.
CallMemoryAdd ==
    /\ \E t \in callers, source \in SourceTexts :
          /\ Len(collection) + 1 <= MaxItems
          /\ Memory_add_short_term_memory(t, source, <<"str", str(AgentOf(t))>>,
                                          <<"str", <<1>>>>, <<"str", <<1>>>>,
                                          <<"float", <<1>>>>)
    /\ UNCHANGED <<chainVars, poolVars, pureVars, sendVars>>

CallMemorySearch ==
    /\ \E t \in callers : Memory_search_short_term_memory(t, AgentOf(t))
    /\ UNCHANGED <<chainVars, poolVars, pureVars, sendVars>>

NextMemoryAgent ==
    \/ CallMemoryAdd
    \/ CallAddInsert
    \/ CallMemorySearch
    \/ CallSearchQuery
    \/ CallReflect
    \/ CallReflectAcquireFirst
    \/ CallReflectAcquireSecond
    \/ CallReflectSend
    \/ CallReflectRelease
    \/ CallReflectWriteId
    \/ CallReflectWriteLtm

\* The callers of the agents' memories: every call goes through a Memory.
SpecMemoryAgent == InitMemory /\ [][NextMemoryAgent]_vars

\* ------------------------------------------------------------------ teardown

\* A pool of 1..MaxWorkers workers with one READY chain of two steps, and a
\* factory with an empty collection and its callers.
InitCleanup ==
    /\ \E mw \in 1..MaxWorkers :
          /\ ChainInit(1..1, [c \in 1..1 |-> 2],
                       [c \in 1..1 |-> PlannedSteps(FALSE)],
                       {1}, CHOOSE x \in Inputs : TRUE)
          /\ PoolInit(mw, 1..1)
    /\ \E n \in 1..MaxResults : MemoryInit(n)
    /\ NoPure
    /\ NoSend

\* The pool at work and the factory's adds, with either cleanup called at any
\* time and any number of times.
NextCleanup ==
    \/ NextPoolCleanup
    \/ NextMemoryAdd
    \/ CallCleanup
    \/ CallCleanupReset

SpecCleanup == InitCleanup /\ [][NextCleanup]_vars

\* ------------------------------------------------------------------ MemoryItems and their construction

\* The arguments of one construction, drawn from the values above.
ItemArgs ==
    [timestamp : TimestampValues, source : FieldValues, target : FieldValues,
     action : FieldValues, content : FieldValues]

\* One call of MemoryItem(...) to come, with any of the arguments; no chain,
\* no pool and no factory.
InitMemoryItem ==
    /\ item_args \in ItemArgs
    /\ item_made = <<>>
    /\ step_response = <<>>
    /\ step_output = <<>>
    /\ step_class = "none"
    /\ ChainInit({}, <<>>, <<>>, {}, None)
    /\ NoPool
    /\ NoMemory
    /\ NoSend

\* MemoryItem(**item_args) is called.
Construct ==
    /\ item_made = <<>>
    /\ item_made' = MemoryItem(item_args.timestamp, item_args.source,
                               item_args.target, item_args.action,
                               item_args.content)
    /\ UNCHANGED <<item_args, step_response, step_output, step_class>>
    /\ UNCHANGED <<chainVars, poolVars, memVars, sendVars>>

NextMemoryItem == Construct

SpecMemoryItem == InitMemoryItem /\ [][NextMemoryItem]_vars

\* The item made is converted: to_dict(), and to_lists() of a batch of two
\* holding it twice, with any start_id a collection of MaxItems entries or
\* fewer gives.
Convert ==
    /\ item_made # <<>>
    /\ item_made[1] = "ok"
    /\ \E start_id \in 0..MaxItems :
          item_made' = <<"listed", item_made[2], start_id, to_dict(item_made[2]),
                         to_lists(<<item_made[2], item_made[2]>>, start_id)>>
    /\ UNCHANGED <<item_args, step_response, step_output, step_class>>
    /\ UNCHANGED <<chainVars, poolVars, memVars, sendVars>>

NextItemLists ==
    \/ Construct
    \/ Convert

\* An item is constructed and, when that succeeds, converted.
SpecItemLists == InitMemoryItem /\ [][NextItemLists]_vars

\* ------------------------------------------------------------------ the Choice step's parsing

\* The characters that re.compile(r"[A-Z]") matches.
UpperCase ==
    {"A", "B", "C", "D", "E", "F", "G", "H", "I", "J", "K", "L", "M", "N", "O",
     "P", "Q", "R", "S", "T", "U", "V", "W", "X", "Y", "Z"}

\* self.answer_pattern.search(response): the positions at which the pattern
\* matches, of which search takes the first.
Matches(response) == {i \in 1..Len(response) : response[i] \in UpperCase}

\* ChoiceStep.after_process(input_data, response): StepValidationError when
\* nothing matches, and otherwise "ok" and the dict with the first match's
\* text (match.group()) as the choice.
ChoiceAfterProcess(input_data, response) ==
    IF Matches(response) = {}
    THEN <<"StepValidationError">>
    ELSE LET first == CHOOSE i \in Matches(response) :
                          \A j \in Matches(response) : i <= j
         IN  <<"ok", [input |-> input_data, choice |-> <<response[first]>>]>>

\* The response "Answer: B", character by character.
AnswerB == <<"A", "n", "s", "w", "e", "r", ":", " ", "B">>

\* The responses a Choice step is given: "Answer: B", and every text of
\* MaxResponseLen characters or fewer over a few letters and marks.
ResponseTexts ==
    {AnswerB} \cup UNION {[1..n -> {"A", "B", "n", ":"}] : n \in 0..MaxResponseLen}

\* One call of after_process to come, with any of the responses.
InitChoice ==
    /\ step_class = "ChoiceStep"
    /\ step_response \in ResponseTexts
    /\ step_output = <<>>
    /\ item_args = <<>>
    /\ item_made = <<>>
    /\ ChainInit({}, <<>>, <<>>, {}, None)
    /\ NoPool
    /\ NoMemory
    /\ NoSend

\* after_process is called on the response.
Parse ==
    /\ step_class = "ChoiceStep"
    /\ step_output = <<>>
    /\ step_output' = ChoiceAfterProcess(<<"input">>, step_response)
    /\ UNCHANGED <<item_args, item_made, step_response, step_class>>
    /\ UNCHANGED <<chainVars, poolVars, memVars, sendVars>>

NextChoice == Parse

SpecChoice == InitChoice /\ [][NextChoice]_vars

\* ------------------------------------------------------------------ the Score and JSON steps' parsing

\* The characters that \d matches among those of the responses.
Digits == {"0", "1", "2", "3", "4", "5", "6", "7", "8", "9"}

\* The number a digit stands for.
DigitValue(c) ==
    CASE c = "0" -> 0 [] c = "1" -> 1 [] c = "2" -> 2 [] c = "3" -> 3
      [] c = "4" -> 4 [] c = "5" -> 5 [] c = "6" -> 6 [] c = "7" -> 7
      [] c = "8" -> 8 [] c = "9" -> 9

RECURSIVE DigitsEnd(_, _)
\* \d* from position i, greedy: the position after the last digit of the run.
DigitsEnd(s, i) ==
    IF i <= Len(s) /\ s[i] \in Digits THEN DigitsEnd(s, i + 1) ELSE i

RECURSIVE DecimalValue(_)
\* The number a run of digits stands for; 0 for the empty run.
DecimalValue(digits) ==
    IF digits = <<>> THEN 0
    ELSE 10 * DecimalValue(SubSeq(digits, 1, Len(digits) - 1))
            + DigitValue(digits[Len(digits)])

RECURSIVE Pow10(_)
Pow10(k) == IF k = 0 THEN 1 ELSE 10 * Pow10(k - 1)

RECURSIVE Normalise(_, _)
\* The float m / 10^k, written with the least k: equal floats are written
\* alike.
Normalise(m, k) ==
    IF k > 0 /\ m % 10 = 0 THEN Normalise(m \div 10, k - 1)
    ELSE <<"float", m, k>>

\* float(text) of a text of the form -?\d+(\.\d+)?, the only texts the
\* steps convert.
float(text) ==
    LET neg == text[1] = "-"
        body == IF neg THEN Tail(text) ELSE text
        point == DigitsEnd(body, 1)
        whole == SubSeq(body, 1, point - 1)
        fraction == SubSeq(body, point + 1, Len(body))
        m == DecimalValue(whole) * Pow10(Len(fraction)) + DecimalValue(fraction)
    IN  Normalise(IF neg THEN 0 - m ELSE m, Len(fraction))

\* re.compile(r"(-?\d+)(\.\d+)?") tried at position i: 0 when it does not
\* match there, and otherwise the position after the match, both groups
\* greedy.
ScoreMatchEnd(s, i) ==
    LET d == IF s[i] = "-" THEN i + 1 ELSE i
        e == DigitsEnd(s, d)
    IN  IF e = d THEN 0
        ELSE IF e + 1 <= Len(s) /\ s[e] = "." /\ s[e + 1] \in Digits
             THEN DigitsEnd(s, e + 1)
             ELSE e

\* The positions at which the score pattern matches.
ScoreMatches(response) ==
    {i \in 1..Len(response) : ScoreMatchEnd(response, i) # 0}

\* The last of the positions.
LastMatch(positions) == CHOOSE i \in positions : \A j \in positions : j <= i

\* pattern.search scans from the left: it takes the first of the positions.
FirstMatch(positions) == CHOOSE i \in positions : \A j \in positions : i <= j

\* ScoreStep.after_process(input_data, response): StepValidationError when
\* nothing matches, and otherwise "ok" and the dict with float(match.group())
\* as the score.
ScoreAfterProcess(input_data, response) ==
    IF ScoreMatches(response) = {}
    THEN <<"StepValidationError">>
    ELSE LET first == FirstMatch(ScoreMatches(response))
             group == SubSeq(response, first, ScoreMatchEnd(response, first) - 1)
         IN  <<"ok", [input |-> input_data, score |-> float(group)]>>

\* re.compile(r"\{[\s\S]*\}").search(response): <<>> when there is no "{"
\* with a "}" after it, and otherwise the first and last position of the
\* match, from the first such "{" to the last "}" of the response, [\s\S]*
\* being greedy.
JsonMatch(response) ==
    LET opens == {i \in 1..Len(response) : response[i] = "{"}
        closes == {i \in 1..Len(response) : response[i] = "}"}
        starts == {i \in opens : \E j \in closes : i < j}
    IN  IF starts = {} THEN <<>>
        ELSE <<FirstMatch(starts), LastMatch(closes)>>

RECURSIVE SkipWhitespace(_, _)
\* The position of the first character at or after i that is not a space.
SkipWhitespace(s, i) ==
    IF i <= Len(s) /\ s[i] = " " THEN SkipWhitespace(s, i + 1) ELSE i

\* The decoder's results: a failure, or the value decoded and the position
\* after it.
DecodeError == <<"JSONDecodeError">>
Decoded(value, end) == <<"decoded", value, end>>

\* A string, s[i] being its opening quote: the characters up to the next
\* quote. The responses hold no backslash and no control character.
scanstring(s, i) ==
    LET quotes == {j \in (i + 1)..Len(s) : s[j] = "\""}
    IN  IF quotes = {} THEN DecodeError
        ELSE LET close == FirstMatch(quotes)
             IN  Decoded(<<"str", SubSeq(s, i + 1, close - 1)>>, close + 1)

\* A number at position i, by the scanner's pattern
\* (-?(?:0|[1-9][0-9]*))(\.[0-9]+)?: an int without a fraction and a float
\* with one. The responses hold no exponent in a block.
match_number(s, i) ==
    LET d == IF s[i] = "-" THEN i + 1 ELSE i
        e == IF d <= Len(s) /\ s[d] = "0" THEN d + 1 ELSE DigitsEnd(s, d)
    IN  IF d > Len(s) \/ e = d THEN DecodeError
        ELSE IF e + 1 <= Len(s) /\ s[e] = "." /\ s[e + 1] \in Digits
             THEN LET end == DigitsEnd(s, e + 1)
                  IN  Decoded(float(SubSeq(s, i, end - 1)), end)
             ELSE LET n == DecimalValue(SubSeq(s, d, e - 1))
                  IN  Decoded(<<"int", IF d > i THEN 0 - n ELSE n>>, e)

\* dict(pairs) with one more pair: a key already there keeps its place and
\* takes the new value.
WithPair(pairs, key, value) ==
    IF \E k \in 1..Len(pairs) : pairs[k][1] = key
    THEN [k \in 1..Len(pairs) |->
             IF pairs[k][1] = key THEN <<key, value>> ELSE pairs[k]]
    ELSE Append(pairs, <<key, value>>)

RECURSIVE scan_once(_, _)
RECURSIVE JSONObject(_, _)
RECURSIVE ObjectMembers(_, _, _)

\* The members of an object from the key at position i on, `pairs` being
\* those decoded before: "key" : value, then "," and the next or "}".
ObjectMembers(s, i, pairs) ==
    IF i > Len(s) \/ s[i] # "\"" THEN DecodeError
    ELSE LET key == scanstring(s, i)
         IN  IF key = DecodeError THEN DecodeError
             ELSE LET colon == SkipWhitespace(s, key[3])
                  IN  IF colon > Len(s) \/ s[colon] # ":" THEN DecodeError
                      ELSE LET value == scan_once(s, SkipWhitespace(s, colon + 1))
                           IN  IF value = DecodeError THEN DecodeError
                               ELSE LET next == SkipWhitespace(s, value[3])
                                        more == WithPair(pairs, key[2], value[2])
                                    IN  IF next > Len(s) THEN DecodeError
                                        ELSE IF s[next] = "}"
                                             THEN Decoded(<<"dict", more>>, next + 1)
                                        ELSE IF s[next] = ","
                                             THEN ObjectMembers(s, SkipWhitespace(s, next + 1), more)
                                        ELSE DecodeError

\* An object, s[i] being its "{".
JSONObject(s, i) ==
    LET first == SkipWhitespace(s, i + 1)
    IN  IF first <= Len(s) /\ s[first] = "}"
        THEN Decoded(<<"dict", <<>>>>, first + 1)
        ELSE ObjectMembers(s, first, <<>>)

\* The value at position i: an object, a string or a number. The responses
\* hold no array and no literal.
scan_once(s, i) ==
    IF i > Len(s) THEN DecodeError
    ELSE IF s[i] = "\"" THEN scanstring(s, i)
    ELSE IF s[i] = "{" THEN JSONObject(s, i)
    ELSE match_number(s, i)

\* json.loads(text): the one value of the text, with white space around it
\* and nothing else; JSONDecodeError otherwise.
json_loads(text) ==
    LET value == scan_once(text, SkipWhitespace(text, 1))
    IN  IF value = DecodeError THEN DecodeError
        ELSE IF SkipWhitespace(text, value[3]) # Len(text) + 1 THEN DecodeError
        ELSE value

\* JsonStep.after_process(input_data, response): StepValidationError when
\* nothing matches or json.loads raises JSONDecodeError on the match, and
\* otherwise "ok" and the dict with the parsed object as json.
JsonAfterProcess(input_data, response) ==
    LET match == JsonMatch(response)
    IN  IF match = <<>>
        THEN <<"StepValidationError">>
        ELSE LET parsed_json == json_loads(SubSeq(response, match[1], match[2]))
             IN  IF parsed_json = DecodeError
                 THEN <<"StepValidationError">>
                 ELSE <<"ok", [input |-> input_data, json |-> parsed_json[2]]>>

\* The response "score: -3.5 out of 10".
ScoreExample ==
    <<"s", "c", "o", "r", "e", ":", " ", "-", "3", ".", "5", " ",
      "o", "u", "t", " ", "o", "f", " ", "1", "0">>

\* The response {"a":1}.
JsonPlain == <<"{", "\"", "a", "\"", ":", "1", "}">>

\* The response A: {"a": -1.5, "aa": {}}. with text around the block, white
\* space and an object in it.
JsonInText ==
    <<"A", ":", " ", "{", "\"", "a", "\"", ":", " ", "-", "1", ".", "5", ",",
      " ", "\"", "a", "a", "\"", ":", " ", "{", "}", "}", ".">>

\* The response {"a":1,"a":"A"}, one key twice.
JsonTwice ==
    <<"{", "\"", "a", "\"", ":", "1", ",", "\"", "a", "\"", ":",
      "\"", "A", "\"", "}">>

\* Responses with a block that is not well-formed: {"a":}, {"a":1,}, {a:1},
\* {"a":1}}, {"a":01}, {"a":1.}, {"a":1}{"a":1} and {"a.
JsonMalformed ==
    { <<"{", "\"", "a", "\"", ":", "}">>,
      <<"{", "\"", "a", "\"", ":", "1", ",", "}">>,
      <<"{", "a", ":", "1", "}">>,
      <<"{", "\"", "a", "\"", ":", "1", "}", "}">>,
      <<"{", "\"", "a", "\"", ":", "0", "1", "}">>,
      <<"{", "\"", "a", "\"", ":", "1", ".", "}">>,
      JsonPlain \o JsonPlain,
      <<"{", "\"", "a", "}">> }

\* The response {"a":1 with no closing brace.
JsonUnclosed == <<"{", "\"", "a", "\"", ":", "1">>

\* The responses the steps are given: the examples, and every text of
\* MaxResponseLen characters or fewer over a letter of each case, a digit,
\* the sign, the point and the braces.
StepResponses ==
    {AnswerB, ScoreExample, JsonPlain, JsonInText, JsonTwice, JsonUnclosed}
        \cup JsonMalformed
        \cup UNION {[1..n -> {"A", "a", "1", "-", ".", "{", "}"}] :
                        n \in 0..MaxResponseLen}

\* One call of after_process to come, of a step of any of the three classes
\* with its default pattern, with any of the responses.
InitSteps ==
    /\ step_class \in {"ChoiceStep", "ScoreStep", "JsonStep"}
    /\ step_response \in StepResponses
    /\ step_output = <<>>
    /\ item_args = <<>>
    /\ item_made = <<>>
    /\ ChainInit({}, <<>>, <<>>, {}, None)
    /\ NoPool
    /\ NoMemory
    /\ NoSend

\* A Score step's after_process is called on the response.
ParseScore ==
    /\ step_class = "ScoreStep"
    /\ step_output = <<>>
    /\ step_output' = ScoreAfterProcess(<<"input">>, step_response)
    /\ UNCHANGED <<item_args, item_made, step_response, step_class>>
    /\ UNCHANGED <<chainVars, poolVars, memVars, sendVars>>

\* A JSON step's after_process is called on the response.
ParseJson ==
    /\ step_class = "JsonStep"
    /\ step_output = <<>>
    /\ step_output' = JsonAfterProcess(<<"input">>, step_response)
    /\ UNCHANGED <<item_args, item_made, step_response, step_class>>
    /\ UNCHANGED <<chainVars, poolVars, memVars, sendVars>>

NextSteps ==
    \/ Parse
    \/ ParseScore
    \/ ParseJson

SpecSteps == InitSteps /\ [][NextSteps]_vars

\* ------------------------------------------------------------------ ThreadSend

\* The worker threads of a ThreadSend.
senders == DOMAIN send_pc

\* ThreadSend.__init__(thread_num=n): an empty queue, and no thread yet.
ThreadSendInit(n) ==
    /\ task_list = <<>>
    /\ unfinished_tasks = 0
    /\ threads_num = n
    /\ thread_list = 0
    /\ send_pc = [w \in 1..n |-> "unstarted"]
    /\ send_task = [w \in 1..n |-> 0]
    /\ task_raises = <<>>
    /\ invoked = <<>>
    /\ start_pc = "idle"

\* ThreadSend.add_task(func, args), before start_thread: the task is put on
\* the queue, which counts it as unfinished. `raises` tells whether
\* func(*args) will raise.
add_task(raises) ==
    /\ start_pc = "idle"
    /\ Len(task_raises) < MaxTasks
    /\ task_raises' = Append(task_raises, raises)
    /\ invoked' = Append(invoked, 0)
    /\ task_list' = Append(task_list, Len(task_raises) + 1)
    /\ unfinished_tasks' = unfinished_tasks + 1
    /\ UNCHANGED <<threads_num, thread_list, send_pc, send_task, start_pc>>
    /\ UNCHANGED <<chainVars, poolVars, memVars, pureVars>>

\* ThreadSend.start_thread() is called: self.thread_list = [].
start_thread ==
    /\ start_pc = "idle"
    /\ start_pc' = "start"
    /\ thread_list' = 0
    /\ UNCHANGED <<task_list, unfinished_tasks, threads_num, send_pc, send_task,
                   task_raises, invoked>>
    /\ UNCHANGED <<chainVars, poolVars, memVars, pureVars>>

\* start_thread: one round of `for i in range(self.threads_num)`: a thread
\* running self.worker is started; after the last comes task_list.join().
StartWorker ==
    /\ start_pc = "start"
    /\ send_pc' = [send_pc EXCEPT ![thread_list + 1] = "get"]
    /\ thread_list' = thread_list + 1
    /\ start_pc' = IF thread_list + 1 = threads_num THEN "join" ELSE "start"
    /\ UNCHANGED <<task_list, unfinished_tasks, threads_num, send_task,
                   task_raises, invoked>>
    /\ UNCHANGED <<chainVars, poolVars, memVars, pureVars>>

\* start_thread: self.task_list.join() returns once no task is unfinished.
JoinTasks ==
    /\ start_pc = "join"
    /\ unfinished_tasks = 0
    /\ start_pc' = "returned"
    /\ UNCHANGED <<task_list, unfinished_tasks, threads_num, thread_list,
                   send_pc, send_task, task_raises, invoked>>
    /\ UNCHANGED <<chainVars, poolVars, memVars, pureVars>>

\* worker: self.task_list.get(timeout=5) takes the oldest task, or, the queue
\* staying empty, raises queue.Empty, on which the bare except leaves the loop.
SendGet(w) ==
    /\ send_pc[w] = "get"
    /\ IF task_list = <<>>
       THEN /\ send_pc' = [send_pc EXCEPT ![w] = "exit"]
            /\ UNCHANGED <<task_list, send_task>>
       ELSE /\ send_task' = [send_task EXCEPT ![w] = Head(task_list)]
            /\ task_list' = Tail(task_list)
            /\ send_pc' = [send_pc EXCEPT ![w] = "call"]
    /\ UNCHANGED <<unfinished_tasks, threads_num, thread_list, task_raises,
                   invoked, start_pc>>
    /\ UNCHANGED <<chainVars, poolVars, memVars, pureVars>>

\* A worker that marks the task done whether it raised or not.
TaskDoneAlways(raised) == TRUE

\* worker: task_done() follows the call inside the try block, so it is
\* reached only when the task returned.
TaskDoneReached(raised) == ~raised

\* worker: task[0](*task[1]) is called. When it returns, task_done() and the
\* sleep follow; when it raises, the bare except leaves the loop, and the
\* worker ends.
SendCall(w) ==
    LET k == send_task[w] IN
    /\ send_pc[w] = "call"
    /\ invoked' = [invoked EXCEPT ![k] = @ + 1]
    /\ unfinished_tasks' = IF TaskDoneReached(task_raises[k])
                           THEN unfinished_tasks - 1 ELSE unfinished_tasks
    /\ send_pc' = [send_pc EXCEPT ![w] = IF task_raises[k] THEN "exit" ELSE "slept"]
    /\ send_task' = [send_task EXCEPT ![w] = 0]
    /\ UNCHANGED <<task_list, threads_num, thread_list, task_raises, start_pc>>
    /\ UNCHANGED <<chainVars, poolVars, memVars, pureVars>>

\* worker, after time.sleep(5): `if self.task_list.empty(): break`.
SendCheck(w) ==
    /\ send_pc[w] = "slept"
    /\ send_pc' = [send_pc EXCEPT ![w] = IF task_list = <<>> THEN "exit" ELSE "get"]
    /\ UNCHANGED <<task_list, unfinished_tasks, threads_num, thread_list,
                   send_task, task_raises, invoked, start_pc>>
    /\ UNCHANGED <<chainVars, poolVars, memVars, pureVars>>

\* A ThreadSend of 1..MaxSendThreads threads; no chain, no pool, no factory.
InitSend ==
    /\ \E n \in 1..MaxSendThreads : ThreadSendInit(n)
    /\ ChainInit({}, <<>>, <<>>, {}, None)
    /\ NoPool
    /\ NoMemory
    /\ NoPure

AddTask == \E raises \in BOOLEAN : add_task(raises)

WorkerGets == \E w \in senders : SendGet(w)

WorkerCalls == \E w \in senders : SendCall(w)

WorkerChecks == \E w \in senders : SendCheck(w)

NextSend ==
    \/ AddTask
    \/ start_thread
    \/ StartWorker
    \/ JoinTasks
    \/ WorkerGets
    \/ WorkerCalls
    \/ WorkerChecks

\* Tasks are added, up to MaxTasks of them, and start_thread is called.
SpecSend == InitSend /\ [][NextSend]_vars

\* start_thread, once called, and every thread started go on as long as they
\* can.
SendFairness ==
    /\ WF_vars(StartWorker)
    /\ WF_vars(JoinTasks)
    /\ \A w \in 1..MaxSendThreads :
          /\ WF_vars(w \in senders /\ SendGet(w))
          /\ WF_vars(w \in senders /\ SendCall(w))
          /\ WF_vars(w \in senders /\ SendCheck(w))

FairSpecSend == SpecSend /\ SendFairness

\* ------------------------------------------------------------------ the claims on one chain

Last(seq) == seq[Len(seq)]

\* How often step s occurs in a log.
Count(log, s) == Cardinality({i \in 1..Len(log) : log[i] = s})

NonDecreasing(log) == \A i \in 1..(Len(log) - 1) : log[i] <= log[i + 1]

\* The history and output of chain c are those of a whole run on its
\* present input.
ResultComplete(c) ==
    /\ steps[c] >= 1
    /\ Len(step_history[c]) = steps[c]
    /\ step_history[c][1].input_data = input_content[c]
    /\ output_content[c] = step_history[c][steps[c]].output_data

\* C1: get_output and get_history raise ValidationError in every state but
\* FINISHED and return the output and the history in FINISHED, where these
\* are the complete result of the run on the chain's present input: no
\* partial and no stale result is ever returned.
C1_ReadOnlyWhenFinished ==
    /\ [](\A c \in chains : state[c] = FINISHED => ResultComplete(c))
    /\ [][\A c \in chains, t \in 1..NumClients :
            /\ get_output(c, t) =>
                 ret' = IF state[c] = FINISHED
                        THEN Result("get_output", c, t, FINISHED, "ok", output_content[c])
                        ELSE Result("get_output", c, t, state[c], "ValidationError", None)
            /\ get_history(c, t) =>
                 ret' = IF state[c] = FINISHED
                        THEN Result("get_history", c, t, FINISHED, "ok", step_history[c])
                        ELSE Result("get_history", c, t, state[c], "ValidationError", None)
       ]_vars

\* C1 witness: get_history was refused on a failed chain that holds a
\* partial history.
C1_Witness ==
    /\ ret.op = "get_history" /\ ret.res = "ValidationError" /\ ret.pre = ERROR
    /\ state[ret.chain] = ERROR
    /\ Len(step_history[ret.chain]) >= 1

\* C2: set_input takes a chain from INIT or FINISHED to READY, storing the
\* input and clearing the history; in RUNNING or ERROR it raises
\* ValidationError and leaves state, input and history as they were.
C2_SetInput ==
    [][\A c \in chains, t \in 1..NumClients, x \in Inputs :
         set_input(c, t, x) =>
            /\ state[c] \in {INIT, FINISHED} =>
                  /\ state'[c] = READY
                  /\ input_content'[c] = x
                  /\ step_history'[c] = <<>>
                  /\ ret'.res = "ok"
            /\ state[c] \in {RUNNING, ERROR} =>
                  /\ ret'.op = "set_input" /\ ret'.res = "ValidationError"
                  /\ UNCHANGED <<state, input_content, step_history>>
    ]_vars

\* C2 witness: a set_input made from inside a step body of the running chain
\* was refused.
C2_Witness ==
    /\ ret.op = "set_input" /\ ret.res = "ValidationError" /\ ret.pre = RUNNING
    /\ state[ret.chain] = RUNNING

\* C3: a run executes the steps in declared order, the first on the chain's
\* input and each next one on its predecessor's output, and when all have
\* succeeded the chain is FINISHED with the last step's output as its output.
C3_StepsInOrder ==
    \A c \in chains :
        /\ NonDecreasing(execLog[c])
        /\ state[c] = FINISHED =>
              LET h == step_history[c] IN
              /\ Len(h) = steps[c]
              /\ \A i \in 1..Len(h) : h[i].step_id = i /\ Count(execLog[c], i) >= 1
              /\ h[1].input_data = input_content[c]
              /\ \A i \in 1..(Len(h) - 1) : h[i + 1].input_data = h[i].output_data
              /\ output_content[c] = h[Len(h)].output_data

\* C3 witness: a chain of MaxSteps steps has finished after a retry.
C3_Witness ==
    \E c \in chains :
        /\ state[c] = FINISHED /\ steps[c] = MaxSteps /\ steps[c] >= 2
        /\ Len(execLog[c]) > steps[c]

\* C4: when a step exhausts its retries the chain ends in ERROR, no later
\* step has been executed, run_step raises a StepExecutionError around the
\* last failure, and a chain is RUNNING only while a run_step call is inside
\* it.
C4_ExhaustionEndsInError ==
    /\ [](\A c \in chains :
            /\ state[c] = RUNNING <=> lock[c] # {}
            /\ (state[c] = ERROR /\ steps[c] >= 1) =>
                  /\ execLog[c] # <<>>
                  /\ Last(execLog[c]) = Len(step_history[c]) + 1
                  /\ \A i \in 1..Len(execLog[c]) : execLog[c][i] <= Last(execLog[c]))
    /\ [][\A c \in chains :
            (state[c] = RUNNING /\ state'[c] = ERROR) =>
               /\ lock'[c] = {}
               /\ ret'.op = "run_step" /\ ret'.chain = c /\ ret'.thread \in lock[c]
               /\ ret'.res = "StepExecutionError"
               /\ ret'.val = last_error'[c] /\ ret'.val # None
       ]_vars

\* C4 witness: a chain is in ERROR with a step after the failed one never
\* executed, and run_step has raised.
C4_Witness ==
    \E c \in chains :
        /\ state[c] = ERROR /\ steps[c] >= 2 /\ Last(execLog[c]) < steps[c]
        /\ ret.op = "run_step" /\ ret.chain = c /\ ret.res = "StepExecutionError"

\* The position (counted from 1) of the step of chain c whose retries ran
\* out: the last step the run invoked.
FailurePosition(c) == Last(execLog[c])

\* What C5 says of a chain in ERROR and of the results a history holds.
FailedStepLeavesNothing(c) ==
    /\ \A i \in 1..Len(step_history[c]) : step_history[c][i].step_id = i
    /\ (state[c] = ERROR /\ execLog[c] # <<>>) =>
          /\ Len(step_history[c]) < FailurePosition(c)
          /\ \A i \in 1..Len(step_history[c]) :
                 step_history[c][i].step_id < FailurePosition(c)

\* C5 as stated: for every chain of n steps, the history has length n if and
\* only if the chain is FINISHED; after a failure the history is shorter than
\* the failing step's position and holds only earlier steps' results.
C5_AsStated ==
    \A c \in chains :
        /\ Len(step_history[c]) = steps[c] <=> state[c] = FINISHED
        /\ FailedStepLeavesNothing(c)

\* C5, amended: the same for every chain of at least one step.
C5_HistoryLength ==
    \A c \in chains :
        steps[c] >= 1 =>
            /\ Len(step_history[c]) = steps[c] <=> state[c] = FINISHED
            /\ FailedStepLeavesNothing(c)

\* C5 witness: the second of two steps failed, and the history holds the
\* first step's result alone.
C5_Witness ==
    \E c \in chains :
        /\ state[c] = ERROR /\ steps[c] >= 2
        /\ FailurePosition(c) = steps[c]
        /\ Len(step_history[c]) = steps[c] - 1

\* C6: a step is attempted at most MAX_RETRIES times in a run, is not
\* attempted again once it has succeeded, and fails the run only after
\* MAX_RETRIES failed attempts; a run of n steps makes at most
\* n * MAX_RETRIES calls, and ends if every call returns.
C6_RetryBounded ==
    /\ [](\A c \in chains :
            /\ attempt[c] \in 0..(MAX_RETRIES - 1)
            /\ \A s \in 1..steps[c] : Count(execLog[c], s) <= MAX_RETRIES
            /\ Len(execLog[c]) <= steps[c] * MAX_RETRIES
            /\ NonDecreasing(execLog[c])
            /\ state[c] = RUNNING => stepIdx[c] = Len(step_history[c]) + 1
            /\ (state[c] = ERROR /\ execLog[c] # <<>>) =>
                  Count(execLog[c], Last(execLog[c])) = MAX_RETRIES)
    /\ (\E c \in chains : state[c] = RUNNING)
          ~> (\A c \in chains : state[c] \in {FINISHED, ERROR})

\* C6 witness: a run has ended in ERROR after a first step that succeeded at
\* its last attempt and a second that failed MAX_RETRIES times.
C6_Witness ==
    \E c \in chains :
        /\ state[c] = ERROR /\ steps[c] >= 2
        /\ Count(execLog[c], 1) = MAX_RETRIES
        /\ Count(execLog[c], 2) = MAX_RETRIES

\* C7: while a step body of a chain is executing, the chain's lock is free
\* for any other thread: its get_output, get_history or set_input gets the
\* lock without waiting.
C7_LockFreeDuringStep ==
    \A c \in chains, t \in 1..NumClients :
        (inFlight[c] /\ lock[c] # {t}) => CanAcquire(c, t)

\* ------------------------------------------------------------------ the claims on the pool

Range(seq) == {seq[i] : i \in 1..Len(seq)}

\* The chains given to the pool are distinct and were all READY.
DistinctReady ==
    /\ \A i, j \in 1..Len(enqueued) : i # j => enqueued[i] # enqueued[j]
    /\ \A c \in Range(enqueued) : input_content[c] # None

\* Chain c was constructed to fail at step 2.
FailsAtStep2(c) == \A o \in stepOutcomes[c][2] : o \in Failures

\* The first start_pool call that passed the guard has returned or raised.
FirstStartOver == pool_ret.op = "start_pool" /\ started = 1

\* C8: given K distinct READY chains of which J fail at step 2, start_pool
\* returns without raising, run_step has been called exactly once on each
\* chain, K - J chains are FINISHED and J are ERROR; no worker stops while a
\* chain is still queued, whatever happened to the chains it ran.
C8_FailureIsolation ==
    DistinctReady =>
        /\ \A c \in chains : runs[c] <= 1
        /\ \A w \in workers : wpc[w] = "exit" => chain_queue = <<>>
        /\ FirstStartOver =>
              LET K == Range(enqueued)
                  J == {c \in K : FailsAtStep2(c)}
              IN  /\ pool_ret.res = "ok"
                  /\ \A c \in K : runs[c] = 1
                  /\ {c \in K : state[c] = ERROR} = J
                  /\ {c \in K : state[c] = FINISHED} = K \ J
                  /\ Cardinality({c \in chains : state[c] = FINISHED})
                        = Cardinality(K) - Cardinality(J)
                  /\ Cardinality({c \in chains : state[c] = ERROR}) = Cardinality(J)

\* C8 witness: start_pool has returned on distinct READY chains of which one
\* failed at step 2 and one finished.
C8_Witness ==
    /\ DistinctReady /\ FirstStartOver /\ pool_ret.res = "ok"
    /\ \E c, d \in Range(enqueued) :
          /\ FailsAtStep2(c) /\ state[c] = ERROR
          /\ ~FailsAtStep2(d) /\ state[d] = FINISHED

\* C9: a start_pool call that has passed its guard returns in the end, also
\* when cleanup sets the shutdown flag while chains are still queued.
C9_StartPoolReturns == (spc # "idle") ~> (spc = "idle")

\* C10: add_chains on a pool in its initial state puts the chains on the
\* queue and makes the pool READY; any later call raises ValidationError and
\* leaves the queue as it is: once the pool is READY the set of chains it
\* was given is fixed, and its queue only shrinks.
C10_AddChainsOnlyInInit ==
    /\ [][\A cs \in ChainLists \cup {<<1>>} :
            add_chains(cs) =>
               IF pool_state = INIT
               THEN /\ chain_queue' = chain_queue \o cs
                    /\ pool_state' = READY
                    /\ pool_ret' = PoolResult("add_chains", "ok")
               ELSE /\ pool_ret' = PoolResult("add_chains", "ValidationError")
                    /\ UNCHANGED <<chain_queue, unfinished, pool_state>>
       ]_vars
    /\ [][pool_state # INIT =>
            /\ enqueued' = enqueued
            /\ Len(chain_queue') <= Len(chain_queue)
            /\ pool_state' = pool_state
       ]_vars

\* C10 witness: add_chains was refused while start_pool was waiting for
\* chains still on the queue.
C10_Witness ==
    /\ pool_ret = PoolResult("add_chains", "ValidationError")
    /\ spc = "join"
    /\ chain_queue # <<>>

\* C11: start_pool called on a pool that is not READY (before add_chains)
\* raises ValidationError, launches no worker and runs no chain; called on a
\* READY pool it goes on to submit its workers. A pool that is not READY has
\* never launched a worker or run a chain.
C11_StartPoolOnlyWhenReady ==
    /\ [][start_pool =>
            IF pool_state = READY
            THEN spc' = "submit" /\ pool_ret' = pool_ret
            ELSE /\ pool_ret' = PoolResult("start_pool", "ValidationError")
                 /\ UNCHANGED <<spc, wpc, wchain, submitted, runs, started,
                                chain_queue, unfinished, shutdown,
                                executor_down, pool_state>>
                 /\ UNCHANGED <<chainVars, memVars, pureVars, sendVars>>
       ]_vars
    /\ [](pool_state # READY =>
            /\ \A w \in workers : wpc[w] = "unsubmitted"
            /\ \A c \in chains : runs[c] = 0
            /\ started = 0 /\ spc = "idle")

\* C11 witness: start_pool was refused on a pool that has no chains yet.
C11_Witness ==
    /\ pool_ret = PoolResult("start_pool", "ValidationError")
    /\ pool_state = INIT
    /\ enqueued = <<>>

\* The workers that have been submitted and have not returned.
LiveWorkers == {w \in workers : wpc[w] \notin {"unsubmitted", "exit"}}

\* C12: at every instant at most max_workers chains are RUNNING, and at most
\* max_workers workers are alive, however many chains were enqueued.
C12_ParallelismBounded ==
    /\ Cardinality({c \in chains : state[c] = RUNNING}) <= max_workers
    /\ Cardinality(LiveWorkers) <= max_workers

\* C12 witness: a pool of one worker was given two chains; one is RUNNING
\* while the other waits on the queue.
C12_Witness ==
    /\ max_workers = 1 /\ Len(enqueued) = 2 /\ enqueued[1] # enqueued[2]
    /\ spc = "join"
    /\ state[enqueued[1]] = RUNNING
    /\ chain_queue = <<enqueued[2]>>

RECURSIVE SumTo(_, _)
\* f[1] + ... + f[n].
SumTo(f, n) == IF n = 0 THEN 0 ELSE f[n] + SumTo(f, n - 1)

\* The workers inside the step loop of chain c.
InStepLoop(c) == {w \in workers : wchain[w] = c /\ wpc[w] = "running"}

\* C13: no two workers are inside the step loop of the same chain at once,
\* also when the chain was enqueued twice; every queue entry is taken by
\* exactly one worker (an entry is on the queue, or held by one worker, or
\* done; each entry taken gives one run_step call), and once the pool is
\* READY the queue only loses its oldest entry: nothing is enqueued again.
C13_OneWorkerPerChain ==
    /\ [](\A c \in chains :
            /\ Cardinality(InStepLoop(c)) <= 1
            /\ Cardinality(lock[c]) <= 1
            /\ (state[c] = RUNNING) <=> (InStepLoop(c) # {})
            /\ lock[c] = InStepLoop(c))
    /\ [](unfinished = Len(chain_queue)
                          + Cardinality({w \in workers : wchain[w] # 0}))
    /\ [](Len(enqueued) = Len(chain_queue)
                            + Cardinality({w \in workers : wpc[w] = "got"})
                            + SumTo(runs, Cardinality(chains)))
    /\ [][pool_state # INIT =>
            \/ chain_queue' = chain_queue
            \/ /\ chain_queue # <<>>
               /\ chain_queue' = Tail(chain_queue)
               /\ \E w \in workers :
                     /\ wchain[w] = 0 /\ wchain'[w] = Head(chain_queue)
                     /\ \A v \in workers \ {w} : wchain'[v] = wchain[v]
       ]_vars

\* C13 witness: a chain was enqueued twice; one worker is inside its step
\* loop while another, which took the second entry, has yet to call run_step.
C13_Witness ==
    \E w, v \in workers :
        /\ w # v
        /\ wchain[w] # 0 /\ wchain[w] = wchain[v]
        /\ wpc[w] = "running" /\ inFlight[wchain[w]]
        /\ wpc[v] = "got"

\* C14: when a submit fails in start_pool, the shutdown flag is set and
\* ThreadingError is raised; whenever start_pool, past its guard, returns or
\* raises, the executor has been shut down and its workers have returned.
C14_LaunchFailure ==
    /\ [][(spc = "submit" /\ executor_down /\ spc' # spc) =>
            shutdown' /\ raising' = "ThreadingError" /\ spc' = "wait"]_vars
    /\ [][(spc # "idle" /\ spc' = "idle") =>
            /\ executor_down' /\ WorkersDone
            /\ pool_ret' = PoolResult("start_pool", raising)
            /\ raising \in {"ok", "ThreadingError"}]_vars
    /\ [](pool_ret.op = "start_pool" /\ pool_ret.res \notin {"ok", "ValidationError"} =>
            /\ pool_ret.res = "ThreadingError"
            /\ shutdown /\ executor_down)
    /\ []((started >= 1 /\ spc = "idle") => executor_down)

\* C14 witness: the first start_pool launched one worker, the next submit
\* failed (cleanup had shut the executor down), and ThreadingError was raised.
C14_Witness ==
    /\ pool_ret = PoolResult("start_pool", "ThreadingError")
    /\ started = 1 /\ submitted = 1 /\ max_workers = 2
    /\ shutdown /\ executor_down

\* ------------------------------------------------------------------ the claims on the memory

\* The ids of the entries of a sequence.
IdsOf(entries) == {entries[i].id : i \in 1..Len(entries)}

\* C15: under concurrent callers of add_short_term_memory the ids in the
\* collection are all different (as many ids as entries); a batch gets the
\* consecutive ids from the collection's size on, read while the batch's
\* thread holds the collection lock alone, so that every entry inserted
\* before has a smaller id than any entry of a batch inserted later.
C15_UniqueIds ==
    /\ Cardinality(IdsOf(collection)) = Len(collection)
    /\ \A i \in 1..Len(collection) :
          /\ collection[i].id = i - 1
          /\ int(collection[i].key) = collection[i].id
          /\ \A j \in 1..Len(collection) :
                i # j => collection[i].key # collection[j].key
    /\ \A t \in callers :
          mpc[t] = "add" =>
             /\ flock["collection"] = {t}
             /\ mlocal[t].start_pos = Len(collection)
             /\ \A n \in IdsOf(collection) : n < mlocal[t].start_pos

\* C15 witness: NumCallers batches of MaxBatch items, of two threads at
\* least, are in the collection.
C15_Witness ==
    /\ Len(collection) = NumCallers * MaxBatch
    /\ IdsOf(collection) = 0..(NumCallers * MaxBatch - 1)
    /\ collection[1].source # collection[Len(collection)].source
    /\ collection[1].source = collection[MaxBatch].source

\* The threads whose release thread t is waiting for.
WaitsOn(t) ==
    IF mpc[t] = "reflect" THEN flock[LockOrder[1]] \ {t}
    ELSE IF mpc[t] = "reflect2" THEN flock[LockOrder[2]] \ {t}
    ELSE {}

\* C16: a thread that holds the reflection lock holds the collection lock
\* (it acquired collection first, and never waits for it holding reflection),
\* only a thread reflecting holds both, and concurrent add, search and reflect
\* calls never deadlock: in no set of threads does each wait for a lock held
\* by another of the set, the agents' locks included, which a thread only
\* waits for while it holds nothing.
C16_LockOrder ==
    /\ \A t \in callers :
          /\ t \in flock["reflection"] => t \in flock["collection"]
          /\ mpc[t] = "idle" =>
                /\ \A name \in DOMAIN flock : t \notin flock[name]
                /\ \A a \in Agents : t \notin alock[a]
          /\ mpc[t] = "reflect2" => flock["collection"] = {t}
    /\ \A name \in DOMAIN flock : Cardinality(flock[name]) <= 1
    /\ \A S \in SUBSET callers :
          S # {} => \E t \in S : WaitsOn(t) \cap S = {}

\* C16 witness: one thread holds both factory locks in a reflect for one
\* agent, while another, holding the lock of another agent, waits for the
\* collection lock.
C16_Witness ==
    \E t, u \in callers :
        /\ mpc[t] = "send" /\ flock["collection"] = {t} /\ flock["reflection"] = {t}
        /\ mpc[u] = "reflect" /\ WaitsOn(u) = {t}
        /\ mlocal[u].agent # mlocal[t].agent
        /\ alock[mlocal[u].agent] = {u}

\* C17: while the reflection prompt is being sent, the calling thread holds
\* neither factory lock.
C17_NoLockDuringSend ==
    \A t \in callers :
        mpc[t] = "send" => \A name \in DOMAIN flock : t \notin flock[name]

\* C18: a reflect that fetched nothing returns the long-term summary and the
\* high-water id it was called with.
C18_ReflectNoOp ==
    \A t \in callers :
        (mpc[t] = "write_id" /\ mlocal[t].fetched = <<>>) =>
            /\ mlocal[t].last_id = mlocal[t].last
            /\ mlocal[t].response = mlocal[t].ltm

\* The largest element of a non-empty set of numbers.
Max(S) == CHOOSE m \in S : \A n \in S : n <= m

\* C19: the entries a reflect fetches are exactly those with an id greater
\* than lastReflectionId in which the agent is source or target; the id it
\* returns is the largest id fetched (lastReflectionId when nothing was); and
\* an agent's last_reflection_id never decreases.
C19_ReflectWindow ==
    /\ [](\A t \in callers :
            /\ mpc[t] = "send" =>
                  IdsOf(mlocal[t].fetched) =
                     {e.id : e \in {collection[i] : i \in 1..Len(collection)}}
                     \cap {n \in 0..Len(collection) : n > mlocal[t].last}
                     \cap {collection[i].id : i \in
                            {j \in 1..Len(collection) :
                                \/ collection[j].source = mlocal[t].agent
                                \/ collection[j].target = mlocal[t].agent}}
            /\ mpc[t] = "write_id" =>
                  mlocal[t].last_id =
                     IF mlocal[t].fetched = <<>> THEN mlocal[t].last
                     ELSE Max(IdsOf(mlocal[t].fetched)))
    /\ [][\A a \in Agents : last_reflection_id'[a] >= last_reflection_id[a]]_vars

\* C19 witness: a second reflect of an agent has fetched the entry added
\* since the first and not the older one, which is the agent's as well, and
\* returns the new entry's id.
C19_Witness ==
    \E t \in callers :
        /\ mpc[t] = "write_id"
        /\ mlocal[t].last = 0
        /\ Len(collection) = 2
        /\ collection[1].source = mlocal[t].agent
        /\ collection[2].target = mlocal[t].agent
        /\ collection[2].source # mlocal[t].agent
        /\ IdsOf(mlocal[t].fetched) = {1}
        /\ mlocal[t].last_id = 1

\* C20: at most one reflect of an agent is under way at a time; until it
\* writes, the pair it read is the agent's pair (no other reflect wrote in
\* between); a reflect that ends has written both fields or neither; and
\* while no reflect of the agent is under way neither field changes.
C20_ReflectAtomic ==
    /\ [](\A a \in Agents :
            /\ Cardinality(alock[a]) <= 1
            /\ \A t \in alock[a] :
                  /\ mlocal[t].agent = a
                  /\ mpc[t] \in {"reflect", "reflect2", "send", "write_id"} =>
                        /\ mlocal[t].last = last_reflection_id[a]
                        /\ mlocal[t].ltm = long_term_memory[a]
                  /\ mpc[t] = "write_ltm" =>
                        /\ mlocal[t].last_id = last_reflection_id[a]
                        /\ mlocal[t].ltm = long_term_memory[a])
    /\ [][\A a \in Agents :
            /\ (alock[a] = {} /\ alock'[a] = {}) =>
                  /\ long_term_memory'[a] = long_term_memory[a]
                  /\ last_reflection_id'[a] = last_reflection_id[a]
            /\ (alock[a] # {} /\ alock'[a] = {}) =>
                  \E t \in alock[a] :
                     \/ /\ long_term_memory'[a] = mlocal[t].response
                        /\ last_reflection_id'[a] = mlocal[t].last_id
                        /\ mres'[t].res = "ok"
                     \/ /\ long_term_memory'[a] = mlocal[t].ltm
                        /\ last_reflection_id'[a] = mlocal[t].last
                        /\ mres'[t].res = "MemoryError"
       ]_vars

\* C20 witness: a reflect has written the new high-water id and not yet the
\* new summary; it holds the agent's lock, which keeps out the other thread,
\* whose own reflect of the agent has ended before.
C20_Witness ==
    \E t, u \in callers :
        /\ t # u
        /\ mpc[t] = "write_ltm"
        /\ alock[mlocal[t].agent] = {t}
        /\ last_reflection_id[mlocal[t].agent] > mlocal[t].last
        /\ long_term_memory[mlocal[t].agent] # mlocal[t].response
        /\ long_term_memory[mlocal[t].agent] # None
        /\ mpc[u] = "idle" /\ mres[u].res = "ok"

\* The ids of the stored entries in which agent a is source or target.
StoredOf(a) ==
    {collection[i].id : i \in {j \in 1..Len(collection) :
                                  \/ collection[j].source = a
                                  \/ collection[j].target = a}}

\* C21: under any interleaving of inserts and reflects, no successful reflect
\* of an agent fetches an entry that an earlier successful reflect of it
\* fetched; while no reflect of the agent is under way, the entries its
\* successful reflects fetched are exactly the stored entries of the agent up
\* to its last_reflection_id; and a reflect that has fetched leaves no stored
\* entry of the agent out: each is among those it fetched or among those
\* fetched before, never both.
C21_FetchedExactlyOnce ==
    \A a \in Agents :
        /\ \A i, j \in 1..Len(reflected[a]) :
              reflected[a][i] = reflected[a][j] => i = j
        /\ alock[a] = {} =>
              Range(reflected[a]) = {n \in StoredOf(a) : n <= last_reflection_id[a]}
        /\ \A t \in callers :
              (mpc[t] = "send" /\ mlocal[t].agent = a) =>
                  /\ IdsOf(mlocal[t].fetched) \cup Range(reflected[a]) = StoredOf(a)
                  /\ IdsOf(mlocal[t].fetched) \cap Range(reflected[a]) = {}

\* C21 witness: two successful reflects of an agent, one before and one after
\* the second insert, have fetched its two stored entries, each once.
C21_Witness ==
    \E a \in Agents :
        /\ alock[a] = {}
        /\ StoredOf(a) = {0, 1}
        /\ reflected[a] = <<0, 1>>
        /\ last_reflection_id[a] = 1
        /\ \E t \in callers : mpc[t] = "idle" /\ mres[t].res = "ok" /\ mres[t].via = "memory"

\* The positions at which a thread is executing an operation on the vector
\* index: between count() and add(), in query(), in client.reset().
IndexPositions == {"add", "search", "reset"}

\* C22: every access to the shared collection (count, add, query, get, and
\* the reset done by cleanup) is made by a thread that holds the collection
\* lock, so at most one thread at a time is executing an operation on the
\* vector index.
C22_IndexUnderLock ==
    /\ \A t \in callers : mpc[t] \in IndexPositions => t \in flock["collection"]
    /\ Cardinality({t \in callers : mpc[t] \in IndexPositions}) <= 1

\* C23: a factory call whose wait for a lock times out raises ThreadingError
\* (not MemoryError, not ValidationError); it timed out at an acquire, before
\* any operation on the index, because another thread held the lock; the
\* collection is unchanged; the call ends there, without another attempt, and
\* holds no factory lock afterwards. And a call gets past the acquire of the
\* collection lock only when no other thread holds the lock.
C23_TimeoutIsThreadingError ==
    [][\A t \in callers :
          /\ (mres'[t] # mres[t] /\ mres'[t].cause = "TimeoutError") =>
                /\ mres'[t].factory = "ThreadingError"
                /\ mpc[t] \in {"idle", "reflect", "reflect2"}
                /\ \E name \in DOMAIN flock : flock[name] \ {t} # {}
                /\ collection' = collection
                /\ mpc'[t] = "idle"
                /\ \A name \in DOMAIN flock : t \notin flock'[name]
          /\ (mpc[t] \in {"idle", "reflect"} /\ mpc'[t] \in {"add", "search", "reflect2"}) =>
                flock["collection"] \subseteq {t}
      ]_vars

\* C23 witness: a thread's call of the factory's add (or search) has ended
\* with ThreadingError after a timeout, while the other thread is between
\* count() and add() with the collection lock.
C23_Witness ==
    \E t, u \in callers :
        /\ t # u
        /\ mpc[t] = "idle"
        /\ mres[t].via = "factory"
        /\ mres[t].cause = "TimeoutError"
        /\ mres[t].factory = "ThreadingError"
        /\ mres[t].res = "ThreadingError"
        /\ mpc[u] = "add"
        /\ flock["collection"] = {u}
        /\ collection # <<>>

\* C24: a call of a Memory operation (add, search, reflect) that ends because
\* a factory lock timed out gives its caller a ThreadingError, and one that
\* ends because the data is invalid or the index fails gives it an error of
\* another kind.
C24_CallerSeesThreadingError ==
    \A t \in callers :
        mres[t].via = "memory" =>
            /\ mres[t].cause = "TimeoutError" => mres[t].res = "ThreadingError"
            /\ mres[t].cause \in {"ValidationError", "IndexFailure"} =>
                  mres[t].res \notin {"ok", "ThreadingError"}

\* C25: when an attempt of a step ends with a validation error, the step is
\* not attempted again: the run ends at once, the chain in ERROR and the error
\* raised to run_step's caller.
C25_ValidationNotRetried ==
    [][\A c \in chains :
          (inFlight[c] /\ ~inFlight'[c] /\ last_error'[c] = <<"StepValidationError">>) =>
              /\ state'[c] = ERROR
              /\ lock'[c] = {}
              /\ ret'.op = "run_step" /\ ret'.chain = c /\ ret'.res # "ok"
      ]_vars

\* C26: a factory add, search or reflect in which the vector index fails
\* raises MemoryError, not the index's own exception, and when the call has
\* ended the calling thread holds neither factory lock; no thread holds a
\* factory lock outside a call.
C26_IndexFailureIsMemoryError ==
    /\ [](\A t \in callers :
            mpc[t] = "idle" => \A name \in DOMAIN flock : t \notin flock[name])
    /\ [][\A t \in callers :
            (mres'[t] # mres[t] /\ mres'[t].cause = "IndexFailure") =>
                /\ mres'[t].factory = "MemoryError"
                /\ mres'[t].res = "MemoryError"
                /\ mpc[t] \in {"idle", "add", "search", "release"}
                /\ mpc'[t] = "idle"
                /\ \A name \in DOMAIN flock : t \notin flock'[name]
       ]_vars

\* C26 witness: an add or search of one thread has failed in the index, a
\* reflect of the other has failed in the index's get, both have raised
\* MemoryError, and both factory locks are free.
C26_Witness ==
    \E t, u \in callers :
        /\ t # u
        /\ mpc[t] = "idle" /\ mpc[u] = "idle"
        /\ mres[t].via = "factory" /\ mres[t].cause = "IndexFailure"
        /\ mres[t].factory = "MemoryError"
        /\ mres[u].via = "memory" /\ mres[u].cause = "IndexFailure"
        /\ mres[u].factory = "MemoryError"
        /\ \A name \in DOMAIN flock : flock[name] = {}
        /\ \A a \in Agents : alock[a] = {}

\* C27: a search for an agent is made under the collection lock and leaves
\* the collection as it is; what it returns for the query text are entries in
\* which the agent is source or target, max_results of them at most.
C27_SearchFiltered ==
    /\ [](\A t \in callers : mpc[t] = "search" => flock["collection"] = {t})
    /\ [][\A t \in callers :
            (mpc[t] = "search" /\ mpc'[t] = "idle") =>
                /\ collection' = collection
                /\ mres'[t].res = "ok" =>
                      /\ mres'[t].val \subseteq StoredOf(mlocal[t].agent)
                      /\ Cardinality(mres'[t].val) <= max_results
       ]_vars

\* C27 witness: with an entry of each agent stored, in which the other has no
\* part, a search has returned the second entry alone.
C27_Witness ==
    \E t \in callers :
        /\ mpc[t] = "idle"
        /\ mres[t].res = "ok" /\ mres[t].val = {1}
        /\ Len(collection) = 2
        /\ collection[1].source = 1 /\ collection[1].target = 1
        /\ collection[2].source = 2 /\ collection[2].target = 2

\* What C28 requires of a field given as x: a non-empty string.
NonEmptyString(x) == x[1] = "str" /\ x[2] # <<>>

\* C28: a MemoryItem is constructed exactly when source, target, action and
\* content are non-empty strings and the timestamp is a number; with any
\* other arguments the construction raises ValidationError.
C28_ItemInvariant ==
    item_made # <<>> =>
        LET valid == /\ \A x \in {item_args.source, item_args.target,
                                  item_args.action, item_args.content} :
                           NonEmptyString(x)
                     /\ item_args.timestamp[1] \in {"int", "float"}
        IN  /\ valid => item_made[1] = "ok"
            /\ ~valid => item_made[1] = "ValidationError"

\* C30: the Choice step with its default pattern parses the response
\* "Answer: B" to the choice "B".
C30_AnswerBParsesToB ==
    (step_response = AnswerB /\ step_output # <<>>) =>
        /\ step_output[1] = "ok"
        /\ step_output[2].choice = <<"B">>

\* C29: neither cleanup raises: a failure of client.reset() in
\* MemoryFactory.cleanup is logged and the call returns, and ChainPool.cleanup
\* returns with the shutdown flag set and the executor shut down, changing
\* nothing else of the pool or its chains. A further call of either has no
\* further effect: the flag and the executor stay as they are, and a reset of
\* a client already reset, like one that fails, leaves the collection, the
\* locks and the memories as they were.
C29_CleanupNeverRaises ==
    /\ [](/\ pool_ret.op = "cleanup" => pool_ret.res = "ok"
          /\ \A t \in callers : mres[t].via = "cleanup" => mres[t].res = "ok")
    /\ [][/\ cpc' # cpc =>
                /\ shutdown' /\ executor_down'
                /\ UNCHANGED <<pool_state, max_workers, chain_queue, unfinished,
                               wpc, wchain, wres, spc, submitted, chainVars>>
          /\ (shutdown => shutdown') /\ (executor_down => executor_down')
          /\ \A t \in callers :
                (mpc[t] = "reset" /\ mpc'[t] = "idle") =>
                    /\ mres'[t].via = "cleanup"
                    /\ (client_reset \/ mres'[t].cause = "ResetFailure") =>
                          UNCHANGED <<collection, client_reset>>
                    /\ UNCHANGED <<flock, alock, long_term_memory,
                                   last_reflection_id>>
       ]_vars

\* C29 witness: a second ChainPool.cleanup is under way after the first has
\* returned, and a further MemoryFactory.cleanup is resetting a client that
\* an earlier one has reset, a failure of another having been logged.
C29_Witness ==
    /\ cpc = "wait" /\ pool_ret.op = "cleanup" /\ pool_ret.res = "ok"
    /\ shutdown /\ executor_down
    /\ client_reset
    /\ \E t, u \in callers :
          /\ mpc[t] = "reset"
          /\ mpc[u] = "idle"
          /\ mres[u].via = "cleanup" /\ mres[u].cause = "ResetFailure"
          /\ mres[u].res = "ok"

\* C33: a chain in ERROR stays in ERROR; a run_step that finds the chain in a
\* state other than READY, and a set_input that finds it in a state other
\* than INIT and FINISHED (READY and ERROR among them), raise ValidationError;
\* and a call that raises ValidationError leaves the chain's state, input,
\* history and output as they were.
C33_ErrorAbsorbing ==
    [][/\ \A c \in chains : state[c] = ERROR => state'[c] = ERROR
       /\ (ret' # ret /\ ret'.op = "run_step" /\ ret'.pre # READY) =>
             ret'.res = "ValidationError"
       /\ (ret' # ret /\ ret'.op = "set_input" /\ ret'.pre \in {READY, RUNNING, ERROR}) =>
             ret'.res = "ValidationError"
       /\ (ret' # ret /\ ret'.op \in {"run_step", "set_input"}
                      /\ ret'.res = "ValidationError") =>
             /\ ret'.pre = state[ret'.chain]
             /\ state'[ret'.chain] = state[ret'.chain]
             /\ input_content'[ret'.chain] = input_content[ret'.chain]
             /\ step_history'[ret'.chain] = step_history[ret'.chain]
             /\ output_content'[ret'.chain] = output_content[ret'.chain]
      ]_vars

\* C33 witness: a chain that failed at its second step, its first step's
\* result in the history, has refused a run_step and is still in ERROR.
C33_Witness ==
    \E c \in chains :
        /\ state[c] = ERROR
        /\ Len(step_history[c]) = 1
        /\ ret.op = "run_step" /\ ret.chain = c /\ ret.pre = ERROR
        /\ ret.res = "ValidationError"

\* C34: a run_step that finds a chain of no steps READY ends with the chain
\* in ERROR and an exception raised to the caller; a chain of no steps is
\* never FINISHED and never has an output.
C34_EmptyRunFails ==
    /\ [](\A c \in chains :
            steps[c] = 0 =>
                /\ state[c] \in {INIT, READY, ERROR}
                /\ output_content[c] = None
                /\ step_history[c] = <<>>)
    /\ [][\A c \in chains :
            (steps[c] = 0 /\ state[c] = READY /\ state'[c] # READY) =>
                /\ state'[c] = ERROR
                /\ ret'.op = "run_step" /\ ret'.chain = c
                /\ ret'.res \notin {"ok", "none"}
       ]_vars

\* C34 witness: run_step has raised on a READY chain of no steps, which is
\* now in ERROR.
C34_Witness ==
    \E c \in chains :
        /\ steps[c] = 0
        /\ state[c] = ERROR
        /\ input_content[c] # None
        /\ ret.op = "run_step" /\ ret.chain = c /\ ret.pre = READY
        /\ ret.res = "IndexError"

\* C35: the pool's state is INIT or READY and no step of start_pool changes
\* it; a start_pool called after one has returned passes the guard, no worker
\* calls run_step and no chain changes while it lasts, and it raises
\* ThreadingError; so the run_step calls made on a chain are those of the
\* first start_pool, one for each time the chain was enqueued.
C35_SecondStartFails ==
    /\ [](/\ pool_state \in {INIT, READY}
          /\ (started = 2 /\ spc = "idle" /\ pool_ret.op = "start_pool") =>
                pool_ret.res = "ThreadingError"
          /\ \A c \in chains : runs[c] <= Cardinality({i \in 1..Len(enqueued) : enqueued[i] = c}))
    /\ [][/\ spc' # spc => pool_state' = pool_state
          /\ started = 2 => (runs' = runs /\ UNCHANGED chainVars)
       ]_vars

\* C35 witness: a second start_pool has raised ThreadingError on a pool that
\* is still READY, whose first start_pool ran a chain to the end.
C35_Witness ==
    /\ started = 2 /\ spc = "idle"
    /\ pool_ret.op = "start_pool" /\ pool_ret.res = "ThreadingError"
    /\ pool_state = READY
    /\ \E c \in chains : runs[c] = 1 /\ state[c] = FINISHED

\* C36: when a worker calls run_step on a chain that is not READY, the chain
\* keeps its state, input, history and output, the call raises
\* ValidationError, which the worker swallows: it marks the queue item done
\* and goes on with its loop; and the first start_pool returns without
\* raising.
C36_NotReadyChainUntouched ==
    /\ []((started = 1 /\ spc = "idle" /\ pool_ret.op = "start_pool") =>
             pool_ret.res = "ok")
    /\ [][\A w \in workers :
            /\ (wpc[w] = "got" /\ wpc'[w] # "got" /\ state[wchain[w]] # READY) =>
                  /\ state'[wchain[w]] = state[wchain[w]]
                  /\ input_content'[wchain[w]] = input_content[wchain[w]]
                  /\ step_history'[wchain[w]] = step_history[wchain[w]]
                  /\ output_content'[wchain[w]] = output_content[wchain[w]]
                  /\ wpc'[w] = "finally"
                  /\ wres'[w] = "ValidationError"
            /\ (wpc[w] = "finally" /\ wpc'[w] # "finally"
                                   /\ wres[w] = "ValidationError") =>
                  /\ unfinished' = unfinished - 1
                  /\ wpc'[w] = "loop"
       ]_vars

\* C36 witness: start_pool has returned without raising from a pool whose
\* queue held a chain that never got an input, which a worker called run_step
\* on and which is still INIT, and a chain that was READY and has finished.
C36_Witness ==
    /\ started = 1 /\ spc = "idle"
    /\ pool_ret.op = "start_pool" /\ pool_ret.res = "ok"
    /\ unfinished = 0
    /\ \E c, d \in chains :
          /\ state[c] = INIT /\ runs[c] = 1 /\ input_content[c] = None
          /\ state[d] = FINISHED /\ runs[d] = 1

\* C37: whatever adds have succeeded, failed or timed out, the ids in the
\* collection are exactly 0 .. count-1, every one once; an add that fails or
\* times out leaves the collection, and with it the next id (the count), as
\* it was, and an add that succeeds gives its batch the ids from the count
\* on.
C37_DenseIds ==
    /\ [](/\ IdsOf(collection) = 0..(Len(collection) - 1)
          /\ \A i, j \in 1..Len(collection) :
                collection[i].id = collection[j].id => i = j
          /\ {int(collection[i].key) : i \in 1..Len(collection)} = 0..(Len(collection) - 1))
    /\ [][\A t \in callers :
            (mres'[t] # mres[t]) =>
                IF mres'[t].res = "ok"
                THEN /\ Len(collection') = Len(collection) + Len(mlocal[t].batch)
                     /\ SubSeq(collection', 1, Len(collection)) = collection
                     /\ \A i \in 1..Len(mlocal[t].batch) :
                           collection'[Len(collection) + i].id = Len(collection) + i - 1
                ELSE mres'[t].res \in {"ThreadingError", "MemoryError"} =>
                           collection' = collection
       ]_vars

\* C37 witness: three entries or more are stored, an add of one thread has
\* failed in the index, and an add of the other has timed out.
C37_Witness ==
    \E t, u \in callers :
        /\ t # u
        /\ Len(collection) >= 3
        /\ mpc[t] = "idle" /\ mres[t].cause = "IndexFailure"
        /\ mpc[u] = "idle" /\ mres[u].cause = "TimeoutError"

\* C38: a reflect in which the factory raises (lock timeout, index failure,
\* failure of the completion service) raises MemoryError from the Memory and
\* leaves the agent's long_term_memory and last_reflection_id as they were;
\* the steps of add and search change neither field of any agent; and a
\* reflect fetches every stored entry of the agent above the agent's
\* last_reflection_id, those a failed reflect had fetched among them.
C38_FailedReflectKeepsState ==
    /\ [](\A t \in callers :
            mpc[t] = "send" =>
                IdsOf(mlocal[t].fetched) =
                    {n \in StoredOf(mlocal[t].agent) :
                        n > last_reflection_id[mlocal[t].agent]})
    /\ [][\A t \in callers :
            /\ (mpc[t] \in {"reflect", "reflect2", "release"} /\ mpc'[t] = "idle") =>
                  /\ mres'[t].via = "memory"
                  /\ mres'[t].factory \in {"ThreadingError", "MemoryError"}
                  /\ mres'[t].res = "MemoryError"
                  /\ long_term_memory' = long_term_memory
                  /\ last_reflection_id' = last_reflection_id
            /\ (\/ /\ mpc'[t] # mpc[t]
                   /\ mpc[t] \in {"add", "search"} \/ mpc'[t] \in {"add", "search"}
                \/ mres'[t] # mres[t] /\ mres'[t].via = "factory") =>
                  /\ long_term_memory' = long_term_memory
                  /\ last_reflection_id' = last_reflection_id
       ]_vars

\* C38 witness: a reflect has failed in the completion service, no agent's
\* fields have ever been written, and a reflect under way has fetched the
\* stored entries, all of its agent.
C38_Witness ==
    \E t, u \in callers :
        /\ mpc[t] = "idle"
        /\ mres[t].via = "memory" /\ mres[t].cause = "PromptError"
        /\ mres[t].res = "MemoryError"
        /\ \A a \in Agents : last_reflection_id[a] = -1 /\ long_term_memory[a] = None
        /\ mpc[u] = "send"
        /\ Len(collection) = 2
        /\ IdsOf(mlocal[u].fetched) = {0, 1}

\* C39: a thread outside a factory call (its call not begun, returned, or
\* raised, whatever was raised and wherever) holds neither factory lock; a
\* thread inside add or search holds the collection lock alone; and a thread
\* holds the reflection lock, acquired second, only while it holds the
\* collection lock, so that of two locks held the second is released first,
\* one lock at a step.
C39_NoLockLeak ==
    /\ [](\A t \in callers :
            /\ mpc[t] \in {"idle", "reflect", "write_id", "write_ltm"} =>
                  \A name \in DOMAIN flock : t \notin flock[name]
            /\ mpc[t] \in {"add", "search"} =>
                  (t \in flock["collection"] /\ t \notin flock["reflection"])
            /\ t \in flock["reflection"] => t \in flock["collection"])
    /\ [][\A t \in callers :
            (t \in flock["collection"] /\ t \in flock["reflection"]
                /\ t \notin flock'["reflection"]) =>
                    t \in flock'["collection"]
       ]_vars

\* C39 witness: a reflect whose prompt failed has released the reflection
\* lock and still holds the collection lock, which it releases next; the
\* other thread's call has timed out and holds nothing.
C39_Witness ==
    \E t, u \in callers :
        /\ mpc[t] = "release"
        /\ mlocal[t].raised = "PromptError"
        /\ flock["collection"] = {t} /\ flock["reflection"] = {}
        /\ mpc[u] = "idle"
        /\ mres[u].cause = "TimeoutError"

\* C40: start_thread, once called, eventually returns, whatever tasks were
\* added and however many threads there are, a task that raises included; and
\* when it has returned every added task has been called exactly once.
C40_StartThreadReturns ==
    /\ (start_pc = "start") ~> (start_pc = "returned")
    /\ [](start_pc = "returned" => \A k \in DOMAIN invoked : invoked[k] = 1)

\* The five fields of an item or of a dictionary made of one.
FiveFields(r) == <<r.timestamp, r.source, r.target, r.action, r.content>>

\* C32: for every valid item, to_dict gives a dictionary with the item's
\* timestamp, source, target, action and content and the id -1 the item had,
\* from which the constructor makes the item again; to_lists gives for the
\* item at each position of the batch the same five fields, the content as
\* document, and the id start_id + position (counted from 0), of which the
\* key is the decimal text; an item made again from the entry has the five
\* fields of the original and differs from the entry in the id alone.
C32_RoundTrip ==
    (item_made # <<>> /\ item_made[1] = "listed") =>
        LET item == item_made[2]
            start_id == item_made[3]
            d == item_made[4]
            lists == item_made[5]
        IN  /\ FiveFields(d) = FiveFields(item)
            /\ d.id = -1 /\ item.item_id = -1
            /\ MemoryItem(d.timestamp, d.source, d.target, d.action, d.content)
                  = <<"ok", item>>
            /\ Len(lists) = 2
            /\ \A i \in 1..Len(lists) :
                  /\ FiveFields(lists[i]) = FiveFields(item)
                  /\ lists[i].document = item.content
                  /\ lists[i].id = start_id + i - 1
                  /\ lists[i].key = str(start_id + i - 1)
                  /\ int(lists[i].key) = lists[i].id
                  /\ MemoryItem(lists[i].timestamp, lists[i].source,
                                lists[i].target, lists[i].action,
                                lists[i].content) = <<"ok", item>>

\* C32 witness: an item whose source and target differ has been converted
\* with start_id 2: its entries have the ids 2 and 3.
C32_Witness ==
    /\ item_made # <<>> /\ item_made[1] = "listed"
    /\ item_made[2].source = <<"str", <<1>>>>
    /\ item_made[2].target = <<"str", <<2>>>>
    /\ item_made[3] = 2
    /\ item_made[5][2].id = 3
    /\ item_made[4].source = <<"str", <<1>>>>

\* A text of the form -?\d+(\.\d+)?: an optional sign, then digits with at
\* most one point among them, a digit first and a digit last.
SignedDecimal(t) ==
    LET body == IF t # <<>> /\ t[1] = "-" THEN Tail(t) ELSE t
    IN  /\ body # <<>>
        /\ \A k \in 1..Len(body) : body[k] \in Digits \cup {"."}
        /\ Cardinality({k \in 1..Len(body) : body[k] = "."}) <= 1
        /\ body[1] \in Digits
        /\ body[Len(body)] \in Digits

\* The block of a response: from its first "{" to its last "}".
BlockIs(response, text) ==
    \E i, j \in 1..Len(response) :
        /\ response[i] = "{" /\ \A k \in 1..(i - 1) : response[k] # "{"
        /\ response[j] = "}" /\ \A k \in (j + 1)..Len(response) : response[k] # "}"
        /\ i < j
        /\ SubSeq(response, i, j) = text

\* C31: a Choice step raises StepValidationError exactly on a response
\* without a capital letter and a Score step exactly on one without a digit;
\* a Score step otherwise returns as a float the first signed decimal of the
\* response, taken as long as it goes, -3.5 for "score: -3.5 out of 10"; a
\* JSON step raises StepValidationError on a response with no "{" that a "}"
\* follows and on each response whose block is not well-formed, and returns
\* the parsed object for the well-formed ones: the empty object for {}, and
\* for the examples their keys' values, a key given twice having its last.
C31_StepParsing ==
    step_output # <<>> =>
        LET response == step_response
            failed == step_output = <<"StepValidationError">>
        IN  /\ step_output[1] \in {"ok", "StepValidationError"}
            /\ step_class = "ChoiceStep" =>
                  (failed <=> \A k \in 1..Len(response) : response[k] \notin UpperCase)
            /\ step_class = "ScoreStep" =>
                  /\ failed <=> \A k \in 1..Len(response) : response[k] \notin Digits
                  /\ response = ScoreExample =>
                        step_output = <<"ok", [input |-> <<"input">>,
                                               score |-> <<"float", -35, 1>>]>>
                  /\ ~failed =>
                        \E i, j \in 1..Len(response) :
                            /\ SignedDecimal(SubSeq(response, i, j))
                            /\ \A a \in 1..(i - 1), b \in 1..Len(response) :
                                  ~SignedDecimal(SubSeq(response, a, b))
                            /\ \A b \in (j + 1)..Len(response) :
                                  ~SignedDecimal(SubSeq(response, i, b))
                            /\ step_output[2].score = float(SubSeq(response, i, j))
            /\ step_class = "JsonStep" =>
                  /\ (~\E i, j \in 1..Len(response) :
                          i < j /\ response[i] = "{" /\ response[j] = "}") => failed
                  /\ response \in JsonMalformed \cup {JsonUnclosed} => failed
                  /\ response = JsonPlain =>
                        step_output[2].json
                            = <<"dict", << <<<<"str", <<"a">>>>, <<"int", 1>>>> >>>>
                  /\ response = JsonInText =>
                        step_output[2].json
                            = <<"dict", << <<<<"str", <<"a">>>>, <<"float", -15, 1>>>>,
                                           <<<<"str", <<"a", "a">>>>, <<"dict", <<>>>>>> >>>>
                  /\ response = JsonTwice =>
                        step_output[2].json
                            = <<"dict", << <<<<"str", <<"a">>>>, <<"str", <<"A">>>>>> >>>>
                  /\ response \notin {JsonPlain, JsonInText, JsonTwice} =>
                        /\ ~failed <=> BlockIs(response, <<"{", "}">>)
                        /\ ~failed => step_output[2].json = <<"dict", <<>>>>

\* C31 witness: a Score step has parsed "score: -3.5 out of 10" to -3.5.
C31_Witness ==
    /\ step_class = "ScoreStep"
    /\ step_response = ScoreExample
    /\ step_output # <<>>
    /\ step_output[1] = "ok"
    /\ step_output[2].score = <<"float", -35, 1>>

====
